---- MODULE Spec2Model ----
(***************************************************************************)
(* Roland voice copilot: the keyboard Action Executor                      *)
(* (roland/keyboard/executor.py, class KeyboardExecutor).                  *)
(*                                                                         *)
(* The executor is a set of coroutines run by one asyncio event loop.  A   *)
(* coroutine runs without interruption from one `await asyncio.sleep` to   *)
(* the next, so every action below runs one coroutine from a suspension    *)
(* point to the next one.  `frames` is the stack of coroutines that are     *)
(* awaiting one another; the caller of the executor is a top-level call.   *)
(* Times are in milliseconds.                                              *)
(***************************************************************************)
EXTENDS Integers, Sequences, FiniteSets, TLC

\* The field names of the model's records.  TLC keeps the fields of a record
\* in the order in which their names first occur in the module; every record
\* below lists its fields in this order, so that no record is ever re-sorted
\* while several workers read it.
RecordFields ==
    [fn |-> 0, pc |-> 0, i |-> 0, action_type |-> 0, action |-> 0, key |-> 0,
     keys |-> 0,
     text |-> 0, step |-> 0, steps |-> 0, repeat_count |-> 0,
     delay_between |-> 0, duration |-> 0, hold_duration |-> 0, delay |-> 0,
     delay_after |-> 0, at |-> 0, e |-> 0, k |-> 0, v |-> 0, t |-> 0, x |-> 0,
     type |-> 0, macro_name |-> 0, macro_steps |-> 0, macro_keys |-> 0,
     macro_action_type |-> 0,
     name |-> 0, aliases |-> 0, keybinds |-> 0, query |-> 0, alias |-> 0,
     trigger_phrase |-> 0, action_steps |-> 0, schema_version |-> 0,
     response |-> 0, use_count |-> 0, last_used |-> 0, columns |-> 0,
     rows |-> 0, initialized |-> 0, trigger |-> 0, json_data |-> 0,
     overwrite |-> 0, success |-> 0, reason |-> 0, max_turns |-> 0,
     history |-> 0, last_command |-> 0, last_user_input |-> 0, role |-> 0,
     content |-> 0, command |-> 0, user_input |-> 0, require_focus |-> 0,
     held |-> 0]

\* ------------------------------------------------------------ constants
PRESS_DURATION == 50
HOLD_DURATION == 1000
COMBO_DELAY == 20
TYPE_DELAY == 50
MIN_REPEAT_DELAY == 20
MAX_REPEAT_COUNT == 50
\* CommandInterpreter.max_duration (5.0 s) and _parse_action_steps' limit
MAX_DURATION == 5000
max_repeat_count == 50

\* --------------------------------------------------------------- bounds
\* Longest held-key list a top-level call may start from.
MaxHeld == 2
\* Longest step list handed to execute_sequence.
MaxSteps == 2
\* Largest in-range repeat_count of the enumerated steps.
MaxRepeat == 2
\* Longest steps list of an intent document.
MaxDocSteps == 2
\* Longest utterance looked up among the keybind aliases, in characters.
MaxQueryLen == 4
\* Largest use_count record_usage is followed up to.
MaxUses == 1
\* ContextManager.max_turns is drawn from 1 .. MaxTurns.
MaxTurns == 2

\* --------------------------------------------------------------- inputs
RawKeys == {"a", "A", "ctrl"}
Durations == {0, 100}
KeyLists == {<<>>, <<"a">>, <<"ctrl", "A">>}
Texts == {<<>>, <<"a", "A">>}
ActionTypes == {"press_key", "hold_key", "key_combo", "type_text"}
RepeatCounts == (-1 .. MaxRepeat) \cup {MAX_REPEAT_COUNT, MAX_REPEAT_COUNT + 1}
DelaysBetween == {0, 5, 30}
DelaysAfter == {0, 100}
\* What the OS reports about the active window: the game, another window,
\* or no answer (xdotool missing, timeout, any other error).
OsOutcomes == {"game", "other", "failed"}
\* class KeyAction
KeyActions == {"press", "hold", "release", "combo"}

Steps ==
    [action_type : ActionTypes, keys : KeyLists, repeat_count : RepeatCounts,
     delay_between : DelaysBetween, duration : Durations,
     delay_after : DelaysAfter]

\* The steps of the enumerated sequences: short repetitions only.
SequenceSteps ==
    [action_type : {"press_key", "type_text"}, keys : {<<>>, <<"a">>},
     repeat_count : {0, 2}, delay_between : {0}, duration : {0},
     delay_after : {100}]

RECURSIVE SeqsUpTo(_, _)
SeqsUpTo(S, n) ==
    IF n = 0 THEN {<<>>}
    ELSE LET shorter == SeqsUpTo(S, n - 1)
         IN shorter \cup {Append(s, x) : s \in {t \in shorter : Len(t) = n - 1}, x \in S}

VARIABLES
    require_focus,  \* KeyboardExecutor.require_focus
    held,           \* KeyboardExecutor._held_keys
    frames,         \* the coroutines in progress, innermost last
    ret,            \* value returned by the coroutine that returned last
    op,             \* name of the current (or last) top-level call
    arg,            \* its argument
    held0,          \* _held_keys when the top-level call began
    log,            \* what the top-level call has done so far, in order
    result,         \* how the top-level call ended
    intr,           \* where an exception or cancellation struck
    cleanups,       \* logs of the release_all_held_keys calls made in a row
    storage,        \* MacroStorage: the macros table and _initialized
    exported,       \* the text the last export_json returned
    context,        \* ContextManager: max_turns, _history, _last_command, ...
    parked          \* the KeyboardExecutor that is not in use: its name, require_focus
                    \* and _held_keys

vars ==
    <<require_focus, held, frames, ret, op, arg, held0, log, result, intr, cleanups,
      storage, exported, context, parked>>

\* The macro store and the conversation context before anything used them:
\* no database file, nothing exported, an empty history.
NoStorage == [columns |-> {}, rows |-> <<>>, initialized |-> FALSE]
NoExport == [t |-> "null", x |-> 0]
NoContext ==
    [max_turns |-> 0, history |-> <<>>, last_command |-> NoExport,
     last_user_input |-> NoExport]
\* Where the program has one executor only, none is parked.
NoParked == [name |-> "", require_focus |-> FALSE, held |-> <<>>]
OthersIdle ==
    /\ storage = NoStorage
    /\ exported = NoExport
    /\ context = NoContext
    /\ parked = NoParked

\* ------------------------------------------------------------- helpers
Min(a, b) == IF a < b THEN a ELSE b
Max(a, b) == IF a > b THEN a ELSE b
B(b) == IF b THEN 1 ELSE 0

\* A log entry: e is "focus", "press", "release", "sleep", "rep", "step"
\* or "step_ret"; k a key or a kind of sleep; v a flag, a time or an index.
Ev(e, k, v) == [e |-> e, k |-> k, v |-> v]

Top == frames[Len(frames)]
Pop == SubSeq(frames, 1, Len(frames) - 1)
SetTop(f) == [frames EXCEPT ![Len(frames)] = f]
NoIntr == [fn |-> "", at |-> "", k |-> ""]

RECURSIVE RemoveFirst(_, _)
RemoveFirst(s, x) ==
    IF s = <<>> THEN <<>>
    ELSE IF Head(s) = x THEN Tail(s)
    ELSE <<Head(s)>> \o RemoveFirst(Tail(s), x)

Elems(s) == {s[i] : i \in DOMAIN s}
Reverse(s) == [i \in 1 .. Len(s) |-> s[Len(s) + 1 - i]]

\* ---------------------------------------------------------- key resolver
Lower(s) == IF s = "A" THEN "a" ELSE s
SPECIAL_KEYS == [x \in {"ctrl"} |-> "Key.ctrl"]

resolve_key(key) ==
    LET key_lower == Lower(key)
    IN IF key_lower \in DOMAIN SPECIAL_KEYS THEN SPECIAL_KEYS[key_lower]
       ELSE Lower(key)

ResolvedKeys == {resolve_key(k) : k \in RawKeys}

\* ------------------------------------------------------------ focus gate

\* Faulty variant: a check that cannot be made counts as "not focused".
is_game_focused_FailClosed(rf, os) ==
    IF ~rf THEN TRUE
    ELSE os = "game"

\* `if not self.require_focus: return True`; the Linux and the Windows check
\* return True from every except clause (and when win32gui is missing).
is_game_focused(rf, os) ==
    IF ~rf THEN TRUE
    ELSE IF os = "failed" THEN TRUE
    ELSE os = "game"


\* The log entry of one consultation of the gate: the gate's answer and, for
\* the consultation made by the top-level coroutine itself (depth 1) with
\* focus checking on, what the OS answered.
FocusEv(rf, os, depth) ==
    Ev("focus", IF rf /\ depth = 1 THEN os ELSE "", B(is_game_focused(rf, os)))

\* Faulty variant: the gate's answer is ignored.
FocusDenied_Ignored(focused) == FALSE

\* `if not self.is_game_focused(): return False`
FocusDenied(focused) == ~focused

\* ------------------------------------------------- how a coroutine ends
\* The innermost coroutine returns v to the coroutine awaiting it; the
\* top-level call ends when the outermost coroutine returns.
Return(v, lg) ==
    /\ frames' = Pop
    /\ ret' = v
    /\ log' = lg
    /\ result' = IF Len(frames) = 1 THEN (IF v THEN "true" ELSE "false") ELSE result
    /\ intr' = intr

\* An exception (kind "raised") or a CancelledError (kind "cancelled") is
\* caught nowhere in the executor: it unwinds every coroutine of the call.
Interrupt(kind, at, k, lg) ==
    /\ frames' = <<>>
    /\ ret' = ret
    /\ log' = lg
    /\ result' = kind
    /\ intr' = [fn |-> Top.fn, at |-> at, k |-> k]

\* The innermost coroutine goes on to frame f, having logged lg.
Continue(f, lg) ==
    /\ frames' = SetTop(f)
    /\ ret' = ret
    /\ log' = lg
    /\ result' = result
    /\ intr' = intr

\* The innermost coroutine, now frame f, awaits a new coroutine g.
Await(f, g, lg) ==
    /\ frames' = Append(SetTop(f), g)
    /\ ret' = ret
    /\ log' = lg
    /\ result' = result
    /\ intr' = intr

Running(fn, pcs) == frames # <<>> /\ Top.fn = fn /\ Top.pc \in pcs

\* A top-level call of coroutine frame f.
Begin(name, a, f) ==
    /\ frames = <<>>
    /\ frames' = <<f>>
    /\ ret' = FALSE
    /\ op' = name
    /\ arg' = a
    /\ held0' = held
    /\ log' = <<>>
    /\ result' = "pending"
    /\ intr' = NoIntr
    /\ cleanups' = <<>>
    /\ UNCHANGED <<storage, exported, parked, context, require_focus, held>>

\* -------------------------------------------------------------- frames
PressKeyFrame(key, duration) ==
    [fn |-> "press_key", pc |-> "start", key |-> key, duration |-> duration]
HoldKeyFrame(key, duration) ==
    [fn |-> "hold_key", pc |-> "start", key |-> key, duration |-> duration]
KeyComboFrame(keys, hold_duration) ==
    [fn |-> "key_combo", pc |-> "start", i |-> 0, keys |-> keys,
     hold_duration |-> hold_duration]
TypeStringFrame(text, delay) ==
    [fn |-> "type_string", pc |-> "start", i |-> 0, text |-> text, delay |-> delay]
ExecuteStepFrame(step) ==
    [fn |-> "execute_step", pc |-> "start", i |-> 0, step |-> step,
     repeat_count |-> 0, delay_between |-> 0]
ExecuteActionFrame(action, keys, duration) ==
    [fn |-> "execute_action", pc |-> "start", i |-> 0, action |-> action,
     keys |-> keys, duration |-> duration]
ExecuteSequenceFrame(steps) ==
    [fn |-> "execute_sequence", pc |-> "start", i |-> 0, steps |-> steps]

\* `duration or self.press_duration`: None and 0 both give the default.
OrDefault(duration, default) == IF duration # 0 THEN duration ELSE default

\* -------------------------------------------------------------- press_key
PressKeyBegin ==
    /\ Running("press_key", {"start"})
    /\ \E os \in OsOutcomes :
        LET focused == is_game_focused(require_focus, os)
            lg1 == Append(log, FocusEv(require_focus, os, Len(frames)))
            k == resolve_key(Top.key)
            press_time == OrDefault(Top.duration, PRESS_DURATION)
        IN IF FocusDenied(focused) THEN Return(FALSE, lg1)
           ELSE \E ok \in BOOLEAN :
                LET lg2 == Append(lg1, Ev("press", k, B(ok)))
                IN IF ~ok THEN Interrupt("raised", "press", k, lg2)
                   ELSE Continue([Top EXCEPT !.pc = "sleep"],
                                 Append(lg2, Ev("sleep", "press", press_time)))
    /\ UNCHANGED <<storage, exported, parked, context,
                 require_focus, held, op, arg, held0, cleanups>>

PressKeyEnd ==
    /\ Running("press_key", {"sleep"})
    /\ \E ok \in BOOLEAN :
        LET k == resolve_key(Top.key)
            lg == Append(log, Ev("release", k, B(ok)))
        IN IF ~ok THEN Interrupt("raised", "release", k, lg)
           ELSE Return(TRUE, lg)
    /\ UNCHANGED <<storage, exported, parked, context,
                 require_focus, held, op, arg, held0, cleanups>>

\* --------------------------------------------------------------- hold_key

\* Faulty variant: the pressed key is not tracked.
HeldAfterPress_Untracked(h, k) == h

\* self._held_keys.append(k)
HeldAfterPress(h, k) == Append(h, k)


\* Faulty variant: the released key stays tracked.
HeldAfterRelease_Kept(h, k) == h

\* if k in self._held_keys: self._held_keys.remove(k)
HeldAfterRelease(h, k) == IF k \in Elems(h) THEN RemoveFirst(h, k) ELSE h

HoldKeyBegin ==
    /\ Running("hold_key", {"start"})
    /\ \E os \in OsOutcomes :
        LET focused == is_game_focused(require_focus, os)
            lg1 == Append(log, FocusEv(require_focus, os, Len(frames)))
            k == resolve_key(Top.key)
            hold_time == OrDefault(Top.duration, HOLD_DURATION)
        IN IF FocusDenied(focused) THEN Return(FALSE, lg1) /\ held' = held
           ELSE \E ok \in BOOLEAN :
                LET lg2 == Append(lg1, Ev("press", k, B(ok)))
                IN IF ~ok THEN Interrupt("raised", "press", k, lg2) /\ held' = held
                   ELSE /\ Continue([Top EXCEPT !.pc = "sleep"],
                                    Append(lg2, Ev("sleep", "hold", hold_time)))
                        /\ held' = HeldAfterPress(held, k)
    /\ UNCHANGED <<storage, exported, parked, context, require_focus, op, arg, held0, cleanups>>

HoldKeyEnd ==
    /\ Running("hold_key", {"sleep"})
    /\ \E ok \in BOOLEAN :
        LET k == resolve_key(Top.key)
            lg == Append(log, Ev("release", k, B(ok)))
        IN IF ~ok THEN Interrupt("raised", "release", k, lg) /\ held' = held
           ELSE Return(TRUE, lg) /\ held' = HeldAfterRelease(held, k)
    /\ UNCHANGED <<storage, exported, parked, context, require_focus, op, arg, held0, cleanups>>

\* -------------------------------------------------------------- key_combo
ResolveAll(keys) == [i \in 1 .. Len(keys) |-> resolve_key(keys[i])]

\* The key pressed i-th by a combo, and the key released i-th.
ComboPressOrder(keys) == ResolveAll(keys)

\* Faulty variant: the keys are released in the order they were pressed.
ComboReleaseOrder_AsPressed(keys) == ResolveAll(keys)

\* for k in reversed(resolved_keys)
ComboReleaseOrder(keys) == Reverse(ResolveAll(keys))


\* One keyboard.press(k) or keyboard.release(k) followed by the inter-key
\* sleep; the call may raise.
ComboKey(what, k, f) ==
    \E ok \in BOOLEAN :
        LET lg == Append(log, Ev(what, k, B(ok)))
        IN IF ~ok THEN Interrupt("raised", what, k, lg)
           ELSE Continue(f, Append(lg, Ev("sleep", "combo_delay", COMBO_DELAY)))

KeyComboBegin ==
    /\ Running("key_combo", {"start"})
    /\ \E os \in OsOutcomes :
        LET focused == is_game_focused(require_focus, os)
            lg1 == Append(log, FocusEv(require_focus, os, Len(frames)))
        IN IF FocusDenied(focused) THEN Return(FALSE, lg1)
           ELSE IF Top.keys = <<>> THEN Return(FALSE, lg1)
           ELSE \E ok \in BOOLEAN :
                LET k == ComboPressOrder(Top.keys)[1]
                    lg2 == Append(lg1, Ev("press", k, B(ok)))
                IN IF ~ok THEN Interrupt("raised", "press", k, lg2)
                   ELSE Continue([Top EXCEPT !.pc = "pressing", !.i = 1],
                                 Append(lg2, Ev("sleep", "combo_delay", COMBO_DELAY)))
    /\ UNCHANGED <<storage, exported, parked, context,
                 require_focus, held, op, arg, held0, cleanups>>

KeyComboPress ==
    /\ Running("key_combo", {"pressing"})
    /\ IF Top.i < Len(Top.keys)
       THEN ComboKey("press", ComboPressOrder(Top.keys)[Top.i + 1],
                     [Top EXCEPT !.i = Top.i + 1])
       ELSE Continue([Top EXCEPT !.pc = "holding", !.i = 0],
                     Append(log, Ev("sleep", "combo_hold",
                                    OrDefault(Top.hold_duration, PRESS_DURATION))))
    /\ UNCHANGED <<storage, exported, parked, context,
                 require_focus, held, op, arg, held0, cleanups>>

KeyComboRelease ==
    /\ Running("key_combo", {"holding", "releasing"})
    /\ IF Top.i < Len(Top.keys)
       THEN ComboKey("release", ComboReleaseOrder(Top.keys)[Top.i + 1],
                     [Top EXCEPT !.pc = "releasing", !.i = Top.i + 1])
       ELSE Return(TRUE, log)
    /\ UNCHANGED <<storage, exported, parked, context,
                 require_focus, held, op, arg, held0, cleanups>>

\* ------------------------------------------------------------ type_string
\* keyboard.press(char); keyboard.release(char); await asyncio.sleep(delay)
TypeChar(char, f) ==
    \E okp \in BOOLEAN :
        LET lg1 == Append(log, Ev("press", char, B(okp)))
        IN IF ~okp THEN Interrupt("raised", "press", char, lg1)
           ELSE \E okr \in BOOLEAN :
                LET lg2 == Append(lg1, Ev("release", char, B(okr)))
                IN IF ~okr THEN Interrupt("raised", "release", char, lg2)
                   ELSE Continue(f, Append(lg2, Ev("sleep", "type", Top.delay)))

TypeStringBegin ==
    /\ Running("type_string", {"start"})
    /\ \E os \in OsOutcomes :
        LET focused == is_game_focused(require_focus, os)
        IN IF FocusDenied(focused)
           THEN Return(FALSE, Append(log, FocusEv(require_focus, os, Len(frames))))
           ELSE Continue([Top EXCEPT !.pc = "typing"],
                         Append(log, FocusEv(require_focus, os, Len(frames))))
    /\ UNCHANGED <<storage, exported, parked, context,
                 require_focus, held, op, arg, held0, cleanups>>

TypeStringNext ==
    /\ Running("type_string", {"typing"})
    /\ IF Top.i < Len(Top.text)
       THEN TypeChar(Top.text[Top.i + 1], [Top EXCEPT !.i = Top.i + 1])
       ELSE Return(TRUE, log)
    /\ UNCHANGED <<storage, exported, parked, context,
                 require_focus, held, op, arg, held0, cleanups>>

\* ------------------------------------------------------------ cancellation
\* A CancelledError is delivered to a coroutine suspended in asyncio.sleep.
SleepPcs ==
    {"sleep", "pressing", "holding", "releasing", "between", "after"}

Cancel ==
    /\ frames # <<>>
    /\ Top.pc \in SleepPcs \/ (Top.fn = "type_string" /\ Top.pc = "typing" /\ Top.i > 0)
    /\ Interrupt("cancelled", "sleep",
                 IF Top.fn \in {"press_key", "hold_key"} THEN resolve_key(Top.key) ELSE "",
                 log)
    /\ UNCHANGED <<storage, exported, parked, context,
                 require_focus, held, op, arg, held0, cleanups>>

\* ------------------------------------------------------------ execute_step

\* Faulty variant: one repetition too many.
StepRepeatCount_OffByOne(step) == Min(step.repeat_count, MAX_REPEAT_COUNT) + 1

\* repeat_count = min(step.get("repeat_count", 1), self.MAX_REPEAT_COUNT)
StepRepeatCount(step) == Min(step.repeat_count, MAX_REPEAT_COUNT)


\* Faulty variant: the minimum delay is not enforced.
StepDelayBetween_NoFloor(step) == step.delay_between

\* if delay_between > 0: delay_between = max(delay_between, MIN_REPEAT_DELAY)
StepDelayBetween(step) ==
    IF step.delay_between > 0 THEN Max(step.delay_between, MIN_REPEAT_DELAY)
    ELSE step.delay_between


\* Faulty variant: a failed repetition does not end the loop.
RepetitionAborts_Never(success) == FALSE

\* if not success: return False
RepetitionAborts(success) == ~success

\* The sleep after repetition i of repeat_count (0: none):
\* if i < repeat_count - 1 and delay_between > 0: sleep(delay_between)
SleepAfterRepetition(i, repeat_count, delay_between) ==
    IF i < repeat_count - 1 /\ delay_between > 0 THEN delay_between ELSE 0

\* The sleep once the loop is over (0: none):
\* if delay_after > 0: sleep(delay_after)
SleepAfterStep(step) == IF step.delay_after > 0 THEN step.delay_after ELSE 0

\* The coroutine one repetition awaits.
RepetitionFrame(step) ==
    IF step.action_type = "press_key" THEN PressKeyFrame(step.keys[1], 0)
    ELSE IF step.action_type = "hold_key" THEN HoldKeyFrame(step.keys[1], step.duration)
    ELSE KeyComboFrame(step.keys, IF step.duration > 0 THEN step.duration ELSE 0)

KnownActionTypes == {"press_key", "hold_key", "key_combo"}

ExecuteStepBegin ==
    /\ Running("execute_step", {"start"})
    /\ IF Top.step.keys = <<>> THEN Return(FALSE, log)
       ELSE Continue([Top EXCEPT !.pc = "loop", !.i = 0,
                                 !.repeat_count = StepRepeatCount(Top.step),
                                 !.delay_between = StepDelayBetween(Top.step)],
                     log)
    /\ UNCHANGED <<storage, exported, parked, context,
                 require_focus, held, op, arg, held0, cleanups>>

\* The head of `for i in range(repeat_count)` and what follows the loop.
ExecuteStepLoop ==
    /\ Running("execute_step", {"loop"})
    /\ IF Top.i < Top.repeat_count
       THEN LET lg == Append(log, Ev("rep", Top.step.action_type, Top.i))
            IN IF Top.step.action_type \in KnownActionTypes
               THEN Await([Top EXCEPT !.pc = "await"], RepetitionFrame(Top.step), lg)
               ELSE Return(FALSE, lg)
       ELSE IF SleepAfterStep(Top.step) > 0
            THEN Continue([Top EXCEPT !.pc = "after"],
                          Append(log, Ev("sleep", "after", SleepAfterStep(Top.step))))
            ELSE Return(TRUE, log)
    /\ UNCHANGED <<storage, exported, parked, context,
                 require_focus, held, op, arg, held0, cleanups>>

\* The repetition's coroutine has returned `ret`.
ExecuteStepResume ==
    /\ Running("execute_step", {"await"})
    /\ LET w == SleepAfterRepetition(Top.i, Top.repeat_count, Top.delay_between)
       IN IF RepetitionAborts(ret) THEN Return(FALSE, log)
          ELSE IF w > 0
               THEN Continue([Top EXCEPT !.pc = "between"],
                             Append(log, Ev("sleep", "between", w)))
               ELSE Continue([Top EXCEPT !.pc = "loop", !.i = Top.i + 1], log)
    /\ UNCHANGED <<storage, exported, parked, context,
                 require_focus, held, op, arg, held0, cleanups>>

\* A sleep of execute_step is over.
ExecuteStepWake ==
    /\ Running("execute_step", {"between", "after"})
    /\ IF Top.pc = "between"
       THEN Continue([Top EXCEPT !.pc = "loop", !.i = Top.i + 1], log)
       ELSE Return(TRUE, log)
    /\ UNCHANGED <<storage, exported, parked, context,
                 require_focus, held, op, arg, held0, cleanups>>

\* -------------------------------------------------------- execute_sequence

\* Faulty variant: a failed step does not end the sequence.
SequenceAborts_Never(success) == FALSE

\* if not success: return False
SequenceAborts(success) == ~success

ExecuteSequenceBegin ==
    /\ Running("execute_sequence", {"start"})
    /\ \E os \in OsOutcomes :
        LET focused == is_game_focused(require_focus, os)
            lg1 == Append(log, FocusEv(require_focus, os, Len(frames)))
        IN IF FocusDenied(focused) THEN Return(FALSE, lg1)
           ELSE IF Top.steps = <<>> THEN Return(FALSE, lg1)
           ELSE Await([Top EXCEPT !.pc = "await", !.i = 1],
                      ExecuteStepFrame(Top.steps[1]),
                      Append(lg1, Ev("step", "", 1)))
    /\ UNCHANGED <<storage, exported, parked, context,
                 require_focus, held, op, arg, held0, cleanups>>

\* execute_step has returned `ret` for step i.
ExecuteSequenceResume ==
    /\ Running("execute_sequence", {"await"})
    /\ LET lg == Append(log, Ev("step_ret", "", B(ret)))
       IN IF SequenceAborts(ret) THEN Return(FALSE, lg)
          ELSE IF Top.i < Len(Top.steps)
               THEN Await([Top EXCEPT !.i = Top.i + 1],
                          ExecuteStepFrame(Top.steps[Top.i + 1]),
                          Append(lg, Ev("step", "", Top.i + 1)))
               ELSE Return(TRUE, lg)
    /\ UNCHANGED <<storage, exported, parked, context,
                 require_focus, held, op, arg, held0, cleanups>>

\* ------------------------------------------------------------- release_key

\* if k not in self._held_keys: return False
KeyNotHeld(h, k) == k \notin Elems(h)

\* self._held_keys.remove(k): the first entry equal to k goes.
HeldAfterReleaseKey(h, k) == RemoveFirst(h, k)

\* No await inside: the whole coroutine is one step.
ReleaseKey ==
    /\ frames = <<>>
    /\ \E key \in RawKeys :
        LET k == resolve_key(key)
        IN /\ op' = "release_key"
           /\ arg' = [key |-> key]
           /\ IF KeyNotHeld(held, k)
              THEN /\ log' = <<>>
                   /\ result' = "false"
                   /\ held' = held
                   /\ intr' = NoIntr
              ELSE \E ok \in BOOLEAN :
                   /\ log' = <<Ev("release", k, B(ok))>>
                   /\ result' = IF ok THEN "true" ELSE "raised"
                   /\ held' = IF ok THEN HeldAfterReleaseKey(held, k) ELSE held
                   /\ intr' = IF ok THEN NoIntr
                              ELSE [fn |-> "release_key", at |-> "release", k |-> k]
    /\ held0' = held
    /\ cleanups' = <<>>
    /\ UNCHANGED <<storage, exported, parked, context, require_focus, frames, ret>>

\* ---------------------------------------------------------- execute_action
\* The coroutine execute_action awaits first; "none" when it returns at once
\* or runs release_key, which has no await of its own.
ActionFrame(action, keys, duration) ==
    IF action = "press" THEN PressKeyFrame(keys[1], duration)
    ELSE IF action = "hold" THEN HoldKeyFrame(keys[1], duration)
    ELSE KeyComboFrame(keys, duration)

\* What execute_action returns without awaiting anything:
\* PRESS runs `for key in keys` over nothing and returns True;
\* HOLD and RELEASE return False when len(keys) < 1.
ReturnsAtOnce(action, keys) ==
    \/ action \in {"press", "hold", "release"} /\ keys = <<>>
    \/ action \notin KeyActions
ValueAtOnce(action, keys) == action = "press"

ExecuteActionBegin ==
    /\ Running("execute_action", {"start"})
    /\ IF ReturnsAtOnce(Top.action, Top.keys)
       THEN Return(ValueAtOnce(Top.action, Top.keys), log) /\ held' = held
       ELSE IF Top.action = "release"
       THEN LET k == resolve_key(Top.keys[1])
            IN IF KeyNotHeld(held, k) THEN Return(FALSE, log) /\ held' = held
               ELSE \E ok \in BOOLEAN :
                    LET lg == Append(log, Ev("release", k, B(ok)))
                    IN IF ~ok THEN Interrupt("raised", "release", k, lg) /\ held' = held
                       ELSE Return(TRUE, lg) /\ held' = HeldAfterReleaseKey(held, k)
       ELSE /\ Await([Top EXCEPT !.pc = "await", !.i = 1],
                     ActionFrame(Top.action, Top.keys, Top.duration), log)
            /\ held' = held
    /\ UNCHANGED <<storage, exported, parked, context, require_focus, op, arg, held0, cleanups>>

\* The awaited coroutine has returned `ret`.  PRESS with several keys goes
\* on to the next key unless the press was refused.
ExecuteActionResume ==
    /\ Running("execute_action", {"await"})
    /\ IF Top.action = "press" /\ ret /\ Top.i < Len(Top.keys)
       THEN Await([Top EXCEPT !.i = Top.i + 1],
                  PressKeyFrame(Top.keys[Top.i + 1], Top.duration), log)
       ELSE Return(ret, log)
    /\ UNCHANGED <<storage, exported, parked, context,
                 require_focus, held, op, arg, held0, cleanups>>

\* --------------------------------------------------- release_all_held_keys

\* Faulty variant: the loop stops at the first release that raises.
ReleaseAllCalls_StopAtFailure(h, oks) ==
    LET bad == {i \in 1 .. Len(h) : ~oks[i]}
        n == IF bad = {} THEN Len(h) ELSE CHOOSE i \in bad : \A j \in bad : i <= j
    IN [i \in 1 .. n |-> Ev("release", h[i], B(oks[i]))]

\* for k in list(self._held_keys): try: release(k) except Exception: log
\* oks[i] tells whether the i-th release returns (TRUE) or raises (FALSE).
ReleaseAllCalls(h, oks) == [i \in 1 .. Len(h) |-> Ev("release", h[i], B(oks[i]))]


\* Faulty variant: the list is not cleared.
HeldAfterReleaseAll_NotCleared(h) == h

\* self._held_keys.clear()
HeldAfterReleaseAll(h) == <<>>

ReleaseAllHeldKeys ==
    /\ frames = <<>>
    /\ \E oks \in [1 .. Len(held) -> BOOLEAN] :
        /\ log' = ReleaseAllCalls(held, oks)
        /\ cleanups' = IF op = "release_all_held_keys" /\ cleanups # <<>>
                       THEN <<cleanups[Len(cleanups)], ReleaseAllCalls(held, oks)>>
                       ELSE <<ReleaseAllCalls(held, oks)>>
    /\ held' = HeldAfterReleaseAll(held)
    /\ op' = "release_all_held_keys"
    /\ arg' = [key |-> ""]
    /\ result' = "returned"
    /\ intr' = NoIntr
    /\ held0' = held
    /\ UNCHANGED <<storage, exported, parked, context, require_focus, frames, ret>>

\* ------------------------------------------------------- top-level calls
CallPressKey ==
    \E key \in RawKeys, d \in Durations :
        Begin("press_key", [key |-> key, duration |-> d], PressKeyFrame(key, d))

CallHoldKey ==
    /\ Len(held) < MaxHeld
    /\ \E key \in RawKeys, d \in Durations :
        Begin("hold_key", [key |-> key, duration |-> d], HoldKeyFrame(key, d))

CallKeyCombo ==
    \E keys \in KeyLists, d \in Durations :
        Begin("key_combo", [keys |-> keys, duration |-> d], KeyComboFrame(keys, d))

CallTypeString ==
    \E text \in Texts :
        Begin("type_string", [text |-> text], TypeStringFrame(text, TYPE_DELAY))

CallExecuteAction ==
    \E action \in KeyActions, keys \in KeyLists, d \in Durations :
        /\ action = "hold" => Len(held) < MaxHeld
        /\ Begin("execute_action", [action |-> action, keys |-> keys, duration |-> d],
                 ExecuteActionFrame(action, keys, d))

\* execute_step and execute_sequence are called on a fresh executor.
CallExecuteStep ==
    /\ op = "none"
    /\ \E step \in Steps :
        Begin("execute_step", step, ExecuteStepFrame(step))

CallExecuteSequence ==
    /\ op = "none"
    /\ \E steps \in SeqsUpTo(SequenceSteps, MaxSteps) :
        Begin("execute_sequence", [steps |-> steps], ExecuteSequenceFrame(steps))

\* ---------------------------------------------------------- specification
Init ==
    /\ require_focus \in BOOLEAN
    /\ held = <<>>
    /\ frames = <<>>
    /\ ret = FALSE
    /\ op = "none"
    /\ arg = [key |-> ""]
    /\ held0 = <<>>
    /\ log = <<>>
    /\ result = "none"
    /\ intr = NoIntr
    /\ cleanups = <<>>
    /\ OthersIdle

\* The executor's own operations, called one after another.
Next ==
    \/ CallPressKey
    \/ CallHoldKey
    \/ CallKeyCombo
    \/ CallTypeString
    \/ CallExecuteAction
    \/ ReleaseKey
    \/ ReleaseAllHeldKeys
    \/ PressKeyBegin
    \/ PressKeyEnd
    \/ HoldKeyBegin
    \/ HoldKeyEnd
    \/ KeyComboBegin
    \/ KeyComboPress
    \/ KeyComboRelease
    \/ TypeStringBegin
    \/ TypeStringNext
    \/ ExecuteActionBegin
    \/ ExecuteActionResume
    \/ Cancel

Spec == Init /\ [][Next]_vars

\* One execute_step or execute_sequence call on a fresh executor.
NextSteps ==
    \/ CallExecuteStep
    \/ CallExecuteSequence
    \/ ExecuteStepBegin
    \/ ExecuteStepLoop
    \/ ExecuteStepResume
    \/ ExecuteStepWake
    \/ ExecuteSequenceBegin
    \/ ExecuteSequenceResume
    \/ PressKeyBegin
    \/ PressKeyEnd
    \/ HoldKeyBegin
    \/ HoldKeyEnd
    \/ KeyComboBegin
    \/ KeyComboPress
    \/ KeyComboRelease
    \/ Cancel

SpecSteps == Init /\ [][NextSteps]_vars

\* ========================================================================
\* The Command Interpreter (roland/llm/interpreter.py, CommandInterpreter).
\*
\* An intent document is what json.loads made of the model's answer: a dict
\* whose values may be of any JSON type.  A value is a record [t, x]: t is
\* its type and x its content.  Numbers are in thousandths (5 is 5000, 2.5
\* is 2500), so that durations are in milliseconds as in the executor;
\* json.loads also yields the floats nan and inf.
V(t, x) == [t |-> t, x |-> x]
Absent == V("absent", 0)
Null == V("null", 0)
Bool(b) == V("bool", b)
Num(n) == V("num", n)
NaN == V("nan", 0)
Inf == V("inf", 1)
Str(s) == V("str", s)
List(l) == V("list", l)
Dict(d) == V("dict", d)
\* An exception leaving a function.
Raised(name) == V("raised", name)
IsRaised(v) == v.t = "raised"

\* dict.get(field, default)
Get(v, default) == IF v = Absent THEN default ELSE v

\* ------------------------------------------------- Python's conversions
\* str.lower() and str.strip() on the strings of the documents below; a
\* string not listed is its own lower case, or has no blank to strip.
LowerOf ==
    ("W" :> "w") @@ (" W " :> " w ") @@ ("CTRL" :> "ctrl") @@ ("None" :> "none")
    @@ ("HOLD_KEY" :> "hold_key") @@ ("NaN" :> "nan") @@ (" Boost " :> " boost ")
    @@ ("Boost" :> "boost")
StripOf ==
    (" W " :> "W") @@ (" w " :> "w") @@ (" " :> "") @@ (" Boost " :> "Boost")
    @@ (" boost " :> "boost")
lower(s) == IF s \in DOMAIN LowerOf THEN LowerOf[s] ELSE s
strip(s) == IF s \in DOMAIN StripOf THEN StripOf[s] ELSE s

\* str(value): a string is itself, None is "None", the integer 5 is "5",
\* 2.5 is "2.5".
NumStrOf == (5000 :> "5") @@ (2500 :> "2.5")
PyStr(v) ==
    CASE v.t = "str" -> v.x
      [] v.t = "null" -> "None"
      [] v.t = "num" /\ v.x \in DOMAIN NumStrOf -> NumStrOf[v.x]
      [] OTHER -> "<object>"

\* float(string) of the strings that spell a number; any other string is a
\* ValueError.
FloatOf ==
    ("3" :> Num(3000)) @@ ("9" :> Num(9000)) @@ ("-1" :> Num(-1000))
    @@ ("nan" :> NaN) @@ ("NaN" :> NaN) @@ ("inf" :> Inf)

\* float(value)
PyFloat(v) ==
    CASE v.t \in {"num", "nan", "inf"} -> v
      [] v.t = "bool" -> Num(IF v.x THEN 1000 ELSE 0)
      [] v.t = "str" -> IF v.x \in DOMAIN FloatOf THEN FloatOf[v.x]
                        ELSE Raised("ValueError")
      [] OTHER -> Raised("TypeError")

\* int(string): the strings that spell an integer.
IntOf == ("3" :> 3) @@ ("9" :> 9) @@ ("-1" :> (0 - 1))

\* Rounding towards zero, of a number in thousandths.
Trunc(n) == IF n >= 0 THEN n \div 1000 ELSE 0 - ((0 - n) \div 1000)

\* int(value): V("int", n), or the exception raised.
PyInt(v) ==
    CASE v.t = "num" -> V("int", Trunc(v.x))
      [] v.t = "bool" -> V("int", IF v.x THEN 1 ELSE 0)
      [] v.t = "nan" -> Raised("ValueError")
      [] v.t = "inf" -> Raised("OverflowError")
      [] v.t = "str" -> IF v.x \in DOMAIN IntOf THEN V("int", IntOf[v.x])
                        ELSE Raised("ValueError")
      [] OTHER -> Raised("TypeError")

\* `not value`
Falsy(v) ==
    \/ v.t \in {"absent", "null"}
    \/ v.t = "bool" /\ ~v.x
    \/ v.t = "num" /\ v.x = 0
    \/ v.t = "str" /\ v.x = ""
    \/ v.t = "list" /\ v.x = <<>>

\* float comparisons: every comparison with nan is false.
FloatLess(f, n) == (f.t = "num" /\ f.x < n) \/ (f.t = "inf" /\ f.x < 0)
FloatGreater(f, n) == (f.t = "num" /\ f.x > n) \/ (f.t = "inf" /\ f.x > 0)

\* ---------------------------------------------------------- the allow-list
\* (the one-character keys backslash and backtick are written by name)
ALLOWED_KEYS ==
    {"a", "b", "c", "d", "e", "f", "g", "h", "i", "j", "k", "l", "m", "n", "o",
     "p", "q", "r", "s", "t", "u", "v", "w", "x", "y", "z",
     "0", "1", "2", "3", "4", "5", "6", "7", "8", "9",
     "f1", "f2", "f3", "f4", "f5", "f6", "f7", "f8", "f9", "f10", "f11", "f12",
     "ctrl", "alt", "shift", "ctrl_l", "ctrl_r", "alt_l", "alt_r", "shift_l",
     "shift_r",
     "space", "enter", "tab", "esc", "backspace", "delete",
     "up", "down", "left", "right",
     "home", "end", "page_up", "page_down", "insert",
     "[", "]", "'", "backslash", ",", ".", "/", ";", "-", "=", "backtick"}

\* class CommandType
CommandTypes ==
    {"press_key", "hold_key", "key_combo", "complex_action", "create_macro",
     "delete_macro", "list_macros", "speak_only", "unknown"}
KeyboardCommandTypes == {"press_key", "hold_key", "key_combo"}

\* --------------------------------------------------------- _normalize_keys
\* `for key in keys` raises TypeError when keys is a number or True.
normalize_keys_raises(keys) ==
    ~Falsy(keys) /\ keys.t \in {"num", "bool", "nan", "inf"}

\* key_str = str(key).lower().strip()
normalize_key(key) == strip(lower(PyStr(key)))

\* The list returned: a string counts as a list of one, blank entries go.
normalize_keys(keys) ==
    IF Falsy(keys) THEN <<>>
    ELSE LET l == IF keys.t = "str" THEN <<keys>> ELSE keys.x
             normalized == [j \in 1 .. Len(l) |-> normalize_key(l[j])]
         IN SelectSeq(normalized, LAMBDA key_str : key_str # "")

\* ------------------------------------------------------ _validate_duration
\* float(duration) failing with TypeError or ValueError gives 0.0; below 0
\* gives 0.0; above max_duration gives max_duration.
validate_duration(duration) ==
    LET dur == PyFloat(duration)
    IN IF IsRaised(dur) THEN Num(0)
       ELSE IF FloatLess(dur, 0) THEN Num(0)
       ELSE IF FloatGreater(dur, MAX_DURATION) THEN Num(MAX_DURATION)
       ELSE dur

\* --------------------------------------------- _validate_keyboard_command

\* Faulty variant: the keys outside the allow-list are kept.
valid_keys_Unfiltered(keys) == keys

\* [k for k in keys if k in self.ALLOWED_KEYS]
valid_keys(keys) == SelectSeq(keys, LAMBDA key : key \in ALLOWED_KEYS)

\* ----------------------------------------------------- _parse_action_steps

\* Faulty variant: the count is only limited from above.
clamp_repeat_count_NoFloor(n) == Min(n, max_repeat_count)

\* max(1, min(n, max_repeat_count))
clamp_repeat_count(n) == Max(1, Min(n, max_repeat_count))

\* int(step.get("repeat_count", 1)), TypeError and ValueError giving 1.
step_repeat_count(step) ==
    LET n == PyInt(Get(step.repeat_count, Num(1000)))
    IN IF IsRaised(n) THEN 1 ELSE clamp_repeat_count(n.x)

\* `if not isinstance(step, dict): continue` and
\* `if not valid_keys: continue`
step_skipped(entry) ==
    \/ entry.t # "dict"
    \/ valid_keys(normalize_keys(Get(entry.x.keys, List(<<>>)))) = <<>>

\* An entry that makes _parse_action_steps raise: its keys cannot be
\* iterated, or it is kept and int(repeat_count) raises OverflowError.
step_raises(entry) ==
    /\ entry.t = "dict"
    /\ \/ normalize_keys_raises(Get(entry.x.keys, List(<<>>)))
       \/ /\ ~step_skipped(entry)
          /\ PyInt(Get(entry.x.repeat_count, Num(1000))) = Raised("OverflowError")

\* The ActionStep made of a step that is kept.
action_step(step) ==
    [action_type |-> Get(step.action_type, Str("press_key")),
     keys |-> valid_keys(normalize_keys(Get(step.keys, List(<<>>)))),
     repeat_count |-> step_repeat_count(step),
     delay_between |-> validate_duration(Get(step.delay_between, Num(0))),
     duration |-> validate_duration(Get(step.duration, Num(0))),
     delay_after |-> validate_duration(Get(step.delay_after, Num(0)))]

\* What `for step in steps` iterates over: the entries of a list; the
\* characters of a string, none of which is a dict.
step_entries(steps) ==
    IF steps.t = "list" THEN steps.x
    ELSE <<>>

\* `for step in steps` raises TypeError when steps is None, a number or a
\* boolean; an entry may raise.
parse_action_steps_raises(steps) ==
    \/ steps.t \in {"null", "num", "bool", "nan", "inf"}
    \/ \E j \in DOMAIN step_entries(steps) : step_raises(step_entries(steps)[j])

RECURSIVE parsed_steps(_)
parsed_steps(entries) ==
    IF entries = <<>> THEN <<>>
    ELSE IF step_skipped(Head(entries)) THEN parsed_steps(Tail(entries))
    ELSE <<action_step(Head(entries).x)>> \o parsed_steps(Tail(entries))

parse_action_steps(steps) == parsed_steps(step_entries(steps))

\* ------------------------------------------------------------------ parse
\* The exception _parse_action_steps raises.
parse_action_steps_error(steps) ==
    IF steps.t # "list" THEN "TypeError"
    ELSE LET bad == {j \in DOMAIN steps.x : step_raises(steps.x[j])}
             first == CHOOSE j \in bad : \A j2 \in bad : j <= j2
         IN IF normalize_keys_raises(Get(steps.x[first].x.keys, List(<<>>)))
            THEN "TypeError" ELSE "OverflowError"

\* cmd_type = CommandType(action), ValueError giving UNKNOWN
command_type(action) == IF action \in CommandTypes THEN action ELSE "unknown"

\* The Command parse builds when nothing raises.
parsed_command(response) ==
    LET cmd_type == command_type(lower(Get(response.action, Str("")).x))
        keys == normalize_keys(Get(response.keys, List(<<>>)))
    IN [keys |-> IF cmd_type \in KeyboardCommandTypes THEN valid_keys(keys) ELSE keys,
        steps |-> IF cmd_type = "complex_action"
                  THEN parse_action_steps(Get(response.steps, List(<<>>)))
                  ELSE <<>>,
        duration |-> validate_duration(Get(response.duration, Num(0))),
        type |-> cmd_type,
        macro_name |-> IF cmd_type \in {"create_macro", "delete_macro"}
                       THEN Str(lower(strip(Get(response.macro_name, Str("")).x)))
                       ELSE Null,
        macro_steps |-> IF cmd_type = "create_macro" /\ response.macro_steps # Absent
                        THEN parse_action_steps(response.macro_steps)
                        ELSE <<>>,
        macro_keys |-> IF cmd_type = "create_macro" /\ response.macro_steps = Absent
                       THEN List(normalize_keys(Get(response.macro_keys, List(<<>>))))
                       ELSE Null,
        macro_action_type |-> IF cmd_type = "create_macro" /\ response.macro_steps = Absent
                              THEN Get(response.macro_action_type, Str("press_key"))
                              ELSE Null]

\* parse(response): V("command", Command), or the exception that leaves it.
\* Nothing in parse catches the AttributeError of `.lower()` or `.strip()`
\* on a value that is no string, nor what its helpers raise.
parse(response) ==
    LET action == Get(response.action, Str(""))
        cmd_type == command_type(lower(action.x))
        keys == Get(response.keys, List(<<>>))
        steps == Get(response.steps, List(<<>>))
        macro_name == Get(response.macro_name, Str(""))
        macro_keys == Get(response.macro_keys, List(<<>>))
    IN IF action.t # "str" THEN Raised("AttributeError")
       ELSE IF normalize_keys_raises(keys) THEN Raised("TypeError")
       ELSE IF cmd_type = "complex_action" /\ parse_action_steps_raises(steps)
       THEN Raised(parse_action_steps_error(steps))
       ELSE IF cmd_type \in {"create_macro", "delete_macro"} /\ macro_name.t # "str"
       THEN Raised("AttributeError")
       ELSE IF /\ cmd_type = "create_macro"
               /\ response.macro_steps # Absent
               /\ parse_action_steps_raises(response.macro_steps)
       THEN Raised(parse_action_steps_error(response.macro_steps))
       ELSE IF /\ cmd_type = "create_macro"
               /\ response.macro_steps = Absent
               /\ normalize_keys_raises(macro_keys)
       THEN Raised("TypeError")
       ELSE V("command", parsed_command(response))

\* ------------------------------------------------------ intent documents
\* A missing field is Absent.
Document(action, keys, steps, duration, macro_name, macro_steps, macro_keys, macro_action_type) ==
    [action |-> action, keys |-> keys, steps |-> steps, duration |-> duration,
     macro_name |-> macro_name, macro_steps |-> macro_steps,
     macro_keys |-> macro_keys, macro_action_type |-> macro_action_type]

StepDocument(action_type, keys, repeat_count, delay_between, duration, delay_after) ==
    Dict([action_type |-> action_type, keys |-> keys, repeat_count |-> repeat_count,
          delay_between |-> delay_between, duration |-> duration,
          delay_after |-> delay_after])

DocActions ==
    {Absent, Null, Num(5000), Str("press_key"), Str("HOLD_KEY"), Str("key_combo"),
     Str("speak_only"), Str("fly")}
DocKeys ==
    {Absent, Null, Num(7000), Str(" W "),
     List(<<Str("CTRL"), Str("f13"), Str("W")>>),
     List(<<Str("f13")>>),
     List(<<Str(" "), Num(5000), Null>>)}
DocDurations ==
    {Absent, Null, Bool(TRUE), Num(0 - 1000), Num(2500), Num(9000), NaN, Inf,
     Str("3"), Str("NaN"), Str("soon"), List(<<>>)}
DocRepeatCounts ==
    {Absent, Null, Num(0), Num(0 - 3000), Num(2500), Num(50000), Num(51000), NaN,
     Inf, Str("3"), Str("many")}
DocStepKeys ==
    {Absent, Num(7000), List(<<Str("W")>>), List(<<Str("f13")>>),
     List(<<Str("f13"), Str("CTRL"), Str(" W ")>>)}

\* The entries of a steps list: a step varies in its keys, in its
\* repeat_count or in its times; some entries are not dicts.
DocStepEntries ==
    {Null, Str("press w")}
    \cup {StepDocument(Absent, keys, Absent, Absent, Absent, Absent) :
            keys \in DocStepKeys}
    \cup {StepDocument(Str("press_key"), List(<<Str("W")>>), n, Absent, Absent, Absent) :
            n \in DocRepeatCounts}
    \cup {StepDocument(Str("fly"), List(<<Str("W")>>), Absent, d, d, d) :
            d \in {Num(0 - 1000), Num(9000), NaN, Str("soon")}}

DocSteps ==
    {Null, Num(3000), Str("press w")}
    \cup {List(l) : l \in SeqsUpTo(DocStepEntries, MaxDocSteps)}

\* Keyboard and other simple commands; complex actions and macros with
\* steps; legacy macros.
Documents ==
    {Document(action, keys, Absent, duration, Absent, Absent, Absent, Absent) :
        action \in DocActions, keys \in DocKeys, duration \in DocDurations}
    \cup {Document(Str("complex_action"), Absent, steps, Absent, Absent, Absent, Absent, Absent) :
            steps \in DocSteps \cup {Absent}}
    \cup {Document(Str("create_macro"), Absent, Absent, Absent, Str(" Boost "), steps, Absent, Absent) :
            steps \in DocSteps}
    \cup {Document(action, Absent, Absent, Absent, macro_name, Absent, macro_keys, Absent) :
            action \in {Str("create_macro"), Str("delete_macro")},
            macro_name \in {Absent, Null, Num(5000), Str(" Boost ")},
            macro_keys \in {Absent, Num(7000), Str("W"),
                            List(<<Str("f13"), Str("W")>>)}}

\* -------------------------------------------------- the parse specification
NoResult == V("none", 0)

InitParse ==
    /\ require_focus = FALSE
    /\ held = <<>>
    /\ frames = <<>>
    /\ ret = FALSE
    /\ op = "none"
    /\ arg \in Documents
    /\ held0 = <<>>
    /\ log = <<>>
    /\ result = NoResult
    /\ intr = NoIntr
    /\ cleanups = <<>>
    /\ OthersIdle

\* command = interpreter.parse(arg)
Parse ==
    /\ op = "none"
    /\ op' = "parse"
    /\ result' = parse(arg)
    /\ UNCHANGED <<storage, exported, parked, context,
                 require_focus, held, frames, ret, arg, held0, log, intr, cleanups>>

NextParse == Parse

SpecParse == InitParse /\ [][NextParse]_vars

\* ========================================================================
\* The keybind catalog (roland/keyboard/keybinds.py, KeybindManager).
\*
\* A text is the sequence of its characters, so that `in`, split() and
\* strip() are what they are on Python strings.
Chars == {"a", "A", "b", " "}
Texts4 == SeqsUpTo(Chars, MaxQueryLen)

\* str.lower(), character by character
LowerText(s) == [j \in DOMAIN s |-> IF s[j] = "A" THEN "a" ELSE s[j]]

\* str.strip(): the blanks at both ends go.
RECURSIVE StripLeft(_)
StripLeft(s) ==
    IF s # <<>> /\ Head(s) = " " THEN StripLeft(Tail(s)) ELSE s
StripText(s) == Reverse(StripLeft(Reverse(StripLeft(s))))

\* a in b, for strings
IsSubstring(a, b) ==
    \E j \in 0 .. (Len(b) - Len(a)) : SubSeq(b, j + 1, j + Len(a)) = a

\* set(s.split()): the maximal runs of non-blank characters.
Words(s) ==
    {SubSeq(s, p[1], p[2]) :
        p \in {q \in (DOMAIN s) \X (DOMAIN s) :
                 /\ q[1] <= q[2]
                 /\ \A n \in q[1] .. q[2] : s[n] # " "
                 /\ q[1] = 1 \/ s[q[1] - 1] = " "
                 /\ q[2] = Len(s) \/ s[q[2] + 1] = " "}}

\* A Keybind: its name and its aliases.
Keybind(name, aliases) == [name |-> name, aliases |-> aliases]

\* The catalogs loaded: none (no keybinds file), or keybinds in file order.
Catalogs ==
    {<<>>,
     <<Keybind("landing_gear", << <<"a", "b", " ", "b">>, <<"b", "b", "a">> >>),
       Keybind("quantum_drive", << <<"A", " ", "b", " ", "a", "b">> >>)>>,
     <<Keybind("weapons", << <<"a", "b", " ", "b", "a">> >>),
       Keybind("shields", << <<"b", "a">>, <<"A", "b", " ", "b", "a">> >>)>>,
     <<Keybind("cockpit_lights", << <<"a", "b", " ", "b">> >>),
       Keybind("lights", << <<"b">> >>)>>}

\* self._alias_index after load: alias.lower() -> keybind, in insertion
\* order; an alias met again keeps its place and takes the later keybind.
RECURSIVE IndexPut(_, _, _)
IndexPut(index, alias, name) ==
    IF index = <<>> THEN <<[name |-> name, alias |-> alias]>>
    ELSE IF Head(index).alias = alias
    THEN <<[name |-> name, alias |-> alias]>> \o Tail(index)
    ELSE <<Head(index)>> \o IndexPut(Tail(index), alias, name)

RECURSIVE IndexAliases(_, _, _)
IndexAliases(index, name, aliases) ==
    IF aliases = <<>> THEN index
    ELSE IndexAliases(IndexPut(index, LowerText(Head(aliases)), name), name,
                      Tail(aliases))

RECURSIVE alias_index(_)
alias_index(keybinds) ==
    IF keybinds = <<>> THEN <<>>
    ELSE LET last == keybinds[Len(keybinds)]
         IN IndexAliases(alias_index(SubSeq(keybinds, 1, Len(keybinds) - 1)),
                         last.name, last.aliases)

\* `if alias in query_lower or query_lower in alias`
PartialMatch(alias, query_lower) ==
    IsSubstring(alias, query_lower) \/ IsSubstring(query_lower, alias)

\* The (keybind, alias) pairs the fuzzy stage enumerates, in order.
RECURSIVE Candidates(_)
Candidates(keybinds) ==
    IF keybinds = <<>> THEN <<>>
    ELSE [j \in DOMAIN Head(keybinds).aliases |->
             [name |-> Head(keybinds).name, alias |-> Head(keybinds).aliases[j]]]
         \o Candidates(Tail(keybinds))

\* score = len(common_words) / max(len(alias_words), 1), as the fraction
\* <<numerator, denominator>>
Score(alias, query_words) ==
    LET alias_words == Words(LowerText(alias))
    IN <<Cardinality(query_words \cap alias_words), Max(Cardinality(alias_words), 1)>>
ScoreGreater(p, q) == p[1] * q[2] > q[1] * p[2]
ScoreAtLeastHalf(p) == 2 * p[1] >= p[2]

\* The fuzzy loop from candidate j on, with the best match so far.
RECURSIVE FuzzyFrom(_, _, _, _, _)
FuzzyFrom(cands, j, query_words, best_match, best_score) ==
    IF j > Len(cands) THEN best_match
    ELSE LET score == Score(cands[j].alias, query_words)
         IN IF ScoreGreater(score, best_score) /\ ScoreAtLeastHalf(score)
            THEN FuzzyFrom(cands, j + 1, query_words, cands[j].name, score)
            ELSE FuzzyFrom(cands, j + 1, query_words, best_match, best_score)

\* find_by_alias(query): the name of the keybind returned, "None" for None.
find_by_alias(keybinds, query) ==
    LET query_lower == StripText(LowerText(query))
        index == alias_index(keybinds)
        exact == {j \in DOMAIN index : index[j].alias = query_lower}
        partial == {j \in DOMAIN index : PartialMatch(index[j].alias, query_lower)}
    IN IF exact # {} THEN index[CHOOSE j \in exact : TRUE].name
       ELSE IF partial # {}
       THEN index[CHOOSE j \in partial : \A m \in partial : j <= m].name
       ELSE FuzzyFrom(Candidates(keybinds), 1, Words(query_lower), "None", <<0, 1>>)

\* --------------------------------------------- the keybind specification
InitKeybinds ==
    /\ require_focus = FALSE
    /\ held = <<>>
    /\ frames = <<>>
    /\ ret = FALSE
    /\ op = "none"
    /\ arg \in [keybinds : Catalogs, query : Texts4]
    /\ held0 = <<>>
    /\ log = <<>>
    /\ result = "none"
    /\ intr = NoIntr
    /\ cleanups = <<>>
    /\ OthersIdle

\* keybind = keybinds.find_by_alias(arg.query)
FindByAlias ==
    /\ op = "none"
    /\ op' = "find_by_alias"
    /\ result' = find_by_alias(arg.keybinds, arg.query)
    /\ UNCHANGED <<storage, exported, parked, context,
                 require_focus, held, frames, ret, arg, held0, log, intr, cleanups>>

NextKeybinds == FindByAlias

SpecKeybinds == InitKeybinds /\ [][NextKeybinds]_vars

\* ========================================================================
\* The Macro Store (roland/macros/storage.py, MacroStorage, and
\* roland/macros/manager.py, MacroManager).
\*
\* `storage.columns` and `storage.rows` are the macros table of the SQLite
\* file, the rows in id order; no columns means no table yet.
\* `storage.initialized` is MacroStorage._initialized.  A row and the
\* dictionary read from it have the same fields; a column the table lacks
\* is Absent in the row.  The id of a row is its position when it is
\* inserted, and created_at is left out.  A JSON text is the value it spells,
\* tagged "json".
\* MacroManager(max_macros=2); the configuration's default is 100.
max_macros == 2

\* CREATE_TABLE_SQL, and the table of generation 1 that MIGRATION_V1_TO_V2
\* upgrades.
V1Columns ==
    {"id", "name", "trigger_phrase", "action_type", "keys", "duration", "response",
     "created_at", "last_used", "use_count"}
V2Columns == V1Columns \cup {"action_steps", "schema_version"}

dumps(value) == V("json", value)
loads(text) == text.x

\* What an INSERT leaves in the table.
Row(name, trigger_phrase, action_type, keys, duration, action_steps, schema_version, response) ==
    [action_type |-> action_type, keys |-> keys, duration |-> duration,
     name |-> name, trigger_phrase |-> trigger_phrase,
     action_steps |-> action_steps, schema_version |-> schema_version,
     response |-> response, use_count |-> 0, last_used |-> Null]

\* ALTER TABLE macros ADD COLUMN column [DEFAULT default]; when the column
\* is there already the statement fails and the exception is dropped.
add_column(st, column, default) ==
    IF column \in st.columns THEN st
    ELSE [columns |-> st.columns \cup {column},
          rows |-> [j \in DOMAIN st.rows |-> [st.rows[j] EXCEPT ![column] = default]],
          initialized |-> st.initialized]

\* Faulty variant: the upgrade drops the table and creates the new one.
migrate_schema_Recreate(st) ==
    IF "action_steps" \in st.columns THEN st
    ELSE [columns |-> V2Columns, rows |-> <<>>, initialized |-> st.initialized]

migrate_schema(st) ==
    IF "action_steps" \in st.columns THEN st
    ELSE add_column(add_column(st, "action_steps", Null), "schema_version", V("int", 1))

initialize(st) ==
    IF st.initialized THEN st
    ELSE LET made == IF st.columns = {}
                     THEN [columns |-> V2Columns, rows |-> <<>>,
                           initialized |-> st.initialized]
                     ELSE migrate_schema(st)
         IN [made EXCEPT !.initialized = TRUE]

\* Faulty variant: the v2 branch leaves the legacy columns in the dictionary.
row_to_dict_Unmasked(row) ==
    LET action_steps_raw == IF row.action_steps = Absent THEN Null ELSE row.action_steps
        schema_version ==
            IF row.schema_version = Absent THEN V("int", 1) ELSE row.schema_version
    IN IF ~Falsy(action_steps_raw)
       THEN [row EXCEPT !.keys = IF Falsy(row.keys) THEN Null ELSE loads(row.keys),
                        !.action_steps = loads(action_steps_raw),
                        !.schema_version = schema_version]
       ELSE [row EXCEPT !.keys = IF Falsy(row.keys) THEN List(<<>>) ELSE loads(row.keys),
                        !.action_steps = Null,
                        !.schema_version = schema_version]

\* _row_to_dict(row)
row_to_dict(row) ==
    LET action_steps_raw == IF row.action_steps = Absent THEN Null ELSE row.action_steps
        schema_version ==
            IF row.schema_version = Absent THEN V("int", 1) ELSE row.schema_version
    IN IF ~Falsy(action_steps_raw)
       THEN [row EXCEPT !.action_type = Null, !.keys = Null, !.duration = Null,
                        !.action_steps = loads(action_steps_raw),
                        !.schema_version = schema_version]
       ELSE [row EXCEPT !.keys = IF Falsy(row.keys) THEN List(<<>>) ELSE loads(row.keys),
                        !.action_steps = Null,
                        !.schema_version = schema_version]

\* sqlite3 binds None, numbers and strings; a list or a dict is refused with
\* ProgrammingError.  The float nan is stored as NULL.
Unbindable(value) == value.t \in {"list", "dict"}
SqlReal(value) == IF value = NaN THEN Null ELSE value

\* The two ValueErrors of macro creation.
AlreadyExists == Raised("ValueError: macro already exists")
CapacityReached == Raised("ValueError: maximum number of macros reached")
IsValueError(value) == value \in {AlreadyExists, CapacityReached}

HasName(st, name) == \E j \in DOMAIN st.rows : st.rows[j].name = name

\* Faulty variant: every row is written as generation 1.
storage_create_AlwaysV1(st0, name, trigger_phrase, action_type, keys, duration, action_steps, response) ==
    LET st == initialize(st0)
        v2 == ~Falsy(action_steps)
        keys_json == IF v2 \/ Falsy(keys) THEN Null ELSE dumps(keys)
        action_steps_json == IF v2 THEN dumps(action_steps) ELSE Null
    IN IF \/ Unbindable(name) \/ Unbindable(trigger_phrase) \/ Unbindable(action_type)
          \/ Unbindable(duration) \/ Unbindable(response)
       THEN <<st, Raised("ProgrammingError")>>
       ELSE IF name = Null \/ trigger_phrase = Null \/ HasName(st, name.x)
       THEN <<st, AlreadyExists>>
       ELSE <<[st EXCEPT !.rows =
                   Append(@, Row(name.x, trigger_phrase.x, action_type, keys_json,
                                 SqlReal(duration), action_steps_json,
                                 V("int", 1), response))],
              V("int", Len(st.rows) + 1)>>

\* Faulty variant: the IntegrityError of the INSERT is not translated.
storage_create_RawIntegrityError(st0, name, trigger_phrase, action_type, keys, duration, action_steps, response) ==
    LET st == initialize(st0)
        v2 == ~Falsy(action_steps)
        keys_json == IF v2 \/ Falsy(keys) THEN Null ELSE dumps(keys)
        action_steps_json == IF v2 THEN dumps(action_steps) ELSE Null
        schema_version == V("int", IF v2 THEN 2 ELSE 1)
    IN IF \/ Unbindable(name) \/ Unbindable(trigger_phrase) \/ Unbindable(action_type)
          \/ Unbindable(duration) \/ Unbindable(response)
       THEN <<st, Raised("ProgrammingError")>>
       ELSE IF name = Null \/ trigger_phrase = Null \/ HasName(st, name.x)
       THEN <<st, Raised("IntegrityError")>>
       ELSE <<[st EXCEPT !.rows =
                   Append(@, Row(name.x, trigger_phrase.x, action_type, keys_json,
                                 SqlReal(duration), action_steps_json,
                                 schema_version, response))],
              V("int", Len(st.rows) + 1)>>

\* MacroStorage.create: <<the storage afterwards, the id or the exception>>.
\* IntegrityError (name taken, or name or trigger_phrase NULL) becomes
\* ValueError; nothing else is caught.
storage_create(st0, name, trigger_phrase, action_type, keys, duration, action_steps, response) ==
    LET st == initialize(st0)
        v2 == ~Falsy(action_steps)
        keys_json == IF v2 \/ Falsy(keys) THEN Null ELSE dumps(keys)
        action_steps_json == IF v2 THEN dumps(action_steps) ELSE Null
        schema_version == V("int", IF v2 THEN 2 ELSE 1)
    IN IF \/ Unbindable(name) \/ Unbindable(trigger_phrase) \/ Unbindable(action_type)
          \/ Unbindable(duration) \/ Unbindable(response)
       THEN <<st, Raised("ProgrammingError")>>
       ELSE IF name = Null \/ trigger_phrase = Null \/ HasName(st, name.x)
       THEN <<st, AlreadyExists>>
       ELSE <<[st EXCEPT !.rows =
                   Append(@, Row(name.x, trigger_phrase.x, action_type, keys_json,
                                 SqlReal(duration), action_steps_json,
                                 schema_version, response))],
              V("int", Len(st.rows) + 1)>>

\* MacroStorage.update; an argument that is None is Null here.
storage_update(st0, name, trigger_phrase, action_type, keys, duration, response) ==
    LET st == initialize(st0)
        updated(row) ==
            [row EXCEPT
                !.trigger_phrase = IF trigger_phrase = Null THEN @ ELSE trigger_phrase.x,
                !.action_type = IF action_type = Null THEN @ ELSE action_type,
                !.keys = IF keys = Null THEN @ ELSE dumps(keys),
                !.duration = IF duration = Null THEN @ ELSE SqlReal(duration),
                !.response = IF response = Null THEN @ ELSE response]
    IN IF /\ trigger_phrase = Null /\ action_type = Null /\ keys = Null
          /\ duration = Null /\ response = Null
       THEN <<st, Bool(FALSE)>>
       ELSE <<[st EXCEPT !.rows = [j \in DOMAIN @ |->
                                     IF @[j].name = name THEN updated(@[j]) ELSE @[j]]],
              Bool(HasName(st, name))>>

\* MacroStorage.delete
storage_delete(st0, name) ==
    LET st == initialize(st0)
    IN IF Unbindable(name) THEN <<st, Raised("ProgrammingError")>>
       ELSE IF name.t # "str" THEN <<st, Bool(FALSE)>>
       ELSE <<[st EXCEPT !.rows = SelectSeq(@, LAMBDA row : row.name # name.x)],
              Bool(HasName(st, name.x))>>

\* MacroStorage.record_usage
record_usage(st0, name) ==
    LET st == initialize(st0)
    IN [st EXCEPT !.rows = [j \in DOMAIN @ |->
                              IF @[j].name = name
                              THEN [@[j] EXCEPT !.use_count = @ + 1,
                                                !.last_used = Str("now")]
                              ELSE @[j]]]

\* ORDER BY name: the names the store can hold, in SQLite's order.
NameOrder == <<" Boost ", "boost", "scan">>
RECURSIVE OrderByName(_, _)
OrderByName(rows, names) ==
    IF names = <<>> THEN <<>>
    ELSE SelectSeq(rows, LAMBDA row : row.name = Head(names))
         \o OrderByName(rows, Tail(names))

\* MacroStorage.list_all, once initialized
list_all(st) ==
    LET rows == OrderByName(st.rows, NameOrder)
    IN [j \in DOMAIN rows |-> row_to_dict(rows[j])]

\* The JSON object json.dumps writes for a macro dictionary.
JsonObject(macro) ==
    Dict([macro EXCEPT !.name = Str(@), !.trigger_phrase = Str(@)])

\* MacroStorage.export_json: <<the storage afterwards, the text>>
export_json(st0) ==
    LET st == initialize(st0)
        macros == list_all(st)
    IN <<st, dumps(List([j \in DOMAIN macros |-> JsonObject(macros[j])]))>>

\* Faulty variant: the response of the entry is not handed to create.
import_entry_NoResponse(st0, macro, overwrite) ==
    IF macro.t # "dict"
    THEN <<st0, Raised(IF overwrite THEN "TypeError" ELSE "AttributeError")>>
    ELSE LET m == macro.x
             deleted == IF overwrite /\ m.name # Absent
                        THEN storage_delete(st0, m.name)
                        ELSE <<st0, Bool(FALSE)>>
             st == deleted[1]
             created ==
                 IF ~Falsy(m.action_steps)
                 THEN storage_create(st, m.name, m.trigger_phrase, Null, Null, Num(0),
                                     m.action_steps, Null)
                 ELSE storage_create(st, m.name, m.trigger_phrase,
                                     Get(m.action_type, Str("press_key")),
                                     Get(m.keys, List(<<>>)),
                                     Get(m.duration, Num(0)), Null, Null)
         IN IF m.name = Absent THEN <<st0, Str("skipped")>>
            ELSE IF IsRaised(deleted[2]) THEN deleted
            ELSE IF m.trigger_phrase = Absent THEN <<st, Str("skipped")>>
            ELSE IF IsValueError(created[2]) THEN <<created[1], Str("skipped")>>
            ELSE IF IsRaised(created[2]) THEN created
            ELSE <<created[1], Str("imported")>>

\* One entry of import_json's loop: <<storage, imported | skipped | the
\* exception that leaves import_json>>.  KeyError and ValueError are caught,
\* nothing else is.
import_entry(st0, macro, overwrite) ==
    IF macro.t # "dict"
    THEN <<st0, Raised(IF overwrite THEN "TypeError" ELSE "AttributeError")>>
    ELSE LET m == macro.x
             deleted == IF overwrite /\ m.name # Absent
                        THEN storage_delete(st0, m.name)
                        ELSE <<st0, Bool(FALSE)>>
             st == deleted[1]
             created ==
                 IF ~Falsy(m.action_steps)
                 THEN storage_create(st, m.name, m.trigger_phrase, Null, Null, Num(0),
                                     m.action_steps, Get(m.response, Null))
                 ELSE storage_create(st, m.name, m.trigger_phrase,
                                     Get(m.action_type, Str("press_key")),
                                     Get(m.keys, List(<<>>)),
                                     Get(m.duration, Num(0)), Null,
                                     Get(m.response, Null))
         IN IF m.name = Absent THEN <<st0, Str("skipped")>>
            ELSE IF IsRaised(deleted[2]) THEN deleted
            ELSE IF m.trigger_phrase = Absent THEN <<st, Str("skipped")>>
            ELSE IF IsValueError(created[2]) THEN <<created[1], Str("skipped")>>
            ELSE IF IsRaised(created[2]) THEN created
            ELSE <<created[1], Str("imported")>>

RECURSIVE import_from(_, _, _, _)
import_from(st, macros, overwrite, imported) ==
    IF macros = <<>> THEN <<st, V("int", imported)>>
    ELSE LET entry == import_entry(st, Head(macros), overwrite)
         IN IF entry[2] = Str("imported")
            THEN import_from(entry[1], Tail(macros), overwrite, imported + 1)
            ELSE IF entry[2] = Str("skipped")
            THEN import_from(entry[1], Tail(macros), overwrite, imported)
            ELSE entry

\* MacroStorage.import_json: <<the storage afterwards, the count or the
\* exception>>.  A text that is not JSON is tagged "text"; iterating over a
\* JSON object yields its keys, which are strings.
import_json(st, json_data, overwrite) ==
    IF json_data.t # "json" THEN <<st, Raised("JSONDecodeError")>>
    ELSE LET macros == loads(json_data)
         IN IF macros.t = "list" THEN import_from(st, macros.x, overwrite, 0)
            ELSE IF macros.t = "dict"
            THEN import_from(st, <<Str("name")>>, overwrite, 0)
            ELSE <<st, Raised("TypeError")>>

\* f"Executing {name} macro, Commander."
ResponseOf ==
    ("boost" :> "Executing boost macro, Commander.")
    @@ ("scan" :> "Executing scan macro, Commander.")
    @@ ("" :> "Executing  macro, Commander.")

\* Faulty variant: the capacity check admits one macro too many (> for >=).
manager_create_OneTooMany(st0, name, trigger, keys, action_type, duration, action_steps) ==
    LET st == initialize(st0)
        name_norm == strip(lower(name))
        trigger_norm == IF Falsy(trigger) THEN name_norm ELSE strip(lower(trigger.x))
        response == Str(ResponseOf[name_norm])
        created ==
            IF ~Falsy(action_steps)
            THEN storage_create(st, Str(name_norm), Str(trigger_norm), Null, Null,
                                Num(0), action_steps, response)
            ELSE storage_create(st, Str(name_norm), Str(trigger_norm), action_type,
                                IF Falsy(keys) THEN List(<<>>) ELSE keys, duration,
                                Null, response)
    IN IF Len(st.rows) > max_macros THEN <<st, CapacityReached>>
       ELSE IF IsRaised(created[2]) THEN created
       ELSE <<created[1], V("macro", row_to_dict(created[1].rows[created[2].x]))>>

\* MacroManager.create: <<the storage afterwards, the macro read back or the
\* exception>>
manager_create(st0, name, trigger, keys, action_type, duration, action_steps) ==
    LET st == initialize(st0)
        name_norm == strip(lower(name))
        trigger_norm == IF Falsy(trigger) THEN name_norm ELSE strip(lower(trigger.x))
        response == Str(ResponseOf[name_norm])
        created ==
            IF ~Falsy(action_steps)
            THEN storage_create(st, Str(name_norm), Str(trigger_norm), Null, Null,
                                Num(0), action_steps, response)
            ELSE storage_create(st, Str(name_norm), Str(trigger_norm), action_type,
                                IF Falsy(keys) THEN List(<<>>) ELSE keys, duration,
                                Null, response)
    IN IF Len(st.rows) >= max_macros THEN <<st, CapacityReached>>
       ELSE IF IsRaised(created[2]) THEN created
       ELSE <<created[1], V("macro", row_to_dict(created[1].rows[created[2].x]))>>

\* MacroManager.handle_create_command: <<the storage afterwards, (success,
\* the reason of the failure)>>; ValueError is caught, nothing else.
handle_create_command(st0, name, trigger, keys, action_type, duration, action_steps) ==
    LET created == manager_create(st0, name, IF Falsy(trigger) THEN Str(name) ELSE trigger,
                                  keys, action_type, duration, action_steps)
    IN IF IsValueError(created[2])
       THEN <<created[1], V("tuple", [success |-> FALSE, reason |-> created[2].x])>>
       ELSE IF IsRaised(created[2]) THEN created
       ELSE <<created[1], V("tuple", [success |-> TRUE, reason |-> ""])>>

\* ------------------------------------------------------ macro store inputs
\* An ActionStep as the interpreter builds it.
SampleStep ==
    [action_type |-> Str("press_key"), keys |-> <<"w">>, repeat_count |-> 2,
     delay_between |-> Num(100), duration |-> Num(0), delay_after |-> Num(0)]

\* The arguments of MacroManager.create and handle_create_command.
CreateArgs(action_type, keys, duration, name, action_steps, trigger) ==
    [action_type |-> action_type, keys |-> keys, duration |-> duration,
     name |-> name, action_steps |-> action_steps, trigger |-> trigger]
MacroNames == {" Boost ", "scan"}
CreateInputs ==
    {CreateArgs(Str("press_key"), List(<<"w">>), Num(0), n, Null, Null) : n \in MacroNames}
    \cup {CreateArgs(Str("press_key"), Null, Num(0), n, List(<<SampleStep>>), Str("W")) :
            n \in MacroNames}
    \cup {CreateArgs(Str("hold_key"), Null, NaN, "scan", List(<<>>), Null)}

\* The arguments of MacroStorage.update.
UpdateArgs(action_type, keys, duration, name, trigger_phrase, response) ==
    [action_type |-> action_type, keys |-> keys, duration |-> duration,
     name |-> name, trigger_phrase |-> trigger_phrase, response |-> response]
UpdateInputs ==
    {UpdateArgs(Str("key_combo"), List(<<"ctrl", "w">>), Null, n, Null, Null) :
        n \in {"boost", "scan"}}
    \cup {UpdateArgs(Null, Null, Null, "scan", Null, Null)}

\* The entries of the documents handed to import_json.
Entry(action_type, keys, duration, name, trigger_phrase, action_steps, response) ==
    Dict([action_type |-> action_type, keys |-> keys, duration |-> duration,
          name |-> name, trigger_phrase |-> trigger_phrase,
          action_steps |-> action_steps, response |-> response])
LegacyEntry(name) ==
    Entry(Absent, List(<<"w">>), Absent, name, Str("w"), Absent, Absent)
StepsEntry(name) ==
    Entry(Absent, Absent, Absent, name, Str("w"), List(<<SampleStep>>), Str("Done."))
NoTriggerEntry(name) ==
    Entry(Absent, Absent, Absent, name, Absent, Absent, Absent)
ImportDocuments ==
    {dumps(List(<<LegacyEntry(Str("boost")), Str("oops"), StepsEntry(Str("scan"))>>)),
     dumps(List(<<LegacyEntry(Absent), LegacyEntry(Null), NoTriggerEntry(Str("scan")),
                  StepsEntry(Str("boost")), LegacyEntry(Str(" Boost "))>>)),
     dumps(List(<<StepsEntry(List(<<"scan">>)), LegacyEntry(Str("scan"))>>)),
     dumps(LegacyEntry(Str("boost"))),
     V("text", "not json")}

\* A database file written by generation 1 of the program.
LegacyDatabase ==
    [columns |-> V1Columns,
     rows |-> <<Row("scan", "scan now", Str("hold_key"), dumps(List(<<"w">>)),
                    Num(2500), Absent, Absent, Null)>>,
     initialized |-> FALSE]

\* --------------------------------------------- the macro store specification
InitMacros ==
    /\ require_focus = FALSE
    /\ held = <<>>
    /\ frames = <<>>
    /\ ret = FALSE
    /\ op = "none"
    /\ arg = [name |-> ""]
    /\ held0 = <<>>
    /\ log = <<>>
    /\ result = Null
    /\ intr = NoIntr
    /\ cleanups = <<>>
    /\ storage \in {NoStorage, LegacyDatabase}
    /\ exported = NoExport
    /\ context = NoContext
    /\ parked = NoParked

Executor == <<require_focus, held, frames, ret, held0, log, intr, cleanups>>

\* The program starts again: MacroStorage(db_path) on the same file.
NewStorage ==
    /\ storage.initialized
    /\ op' = "MacroStorage"
    /\ arg' = [name |-> ""]
    /\ storage' = [storage EXCEPT !.initialized = FALSE]
    /\ result' = Null
    /\ UNCHANGED <<Executor, exported, parked, context>>

\* await storage.initialize()
Initialize ==
    /\ op' = "initialize"
    /\ arg' = [name |-> ""]
    /\ storage' = initialize(storage)
    /\ result' = Null
    /\ UNCHANGED <<Executor, exported, parked, context>>

\* await manager.create(...)
Create ==
    \E a \in CreateInputs :
        LET done == manager_create(storage, a.name, a.trigger, a.keys, a.action_type,
                                   a.duration, a.action_steps)
        IN /\ op' = "create"
           /\ arg' = a
           /\ storage' = done[1]
           /\ result' = done[2]
           /\ UNCHANGED <<Executor, exported, parked, context>>

\* await manager.handle_create_command(...)
HandleCreateCommand ==
    \E a \in CreateInputs :
        LET done == handle_create_command(storage, a.name, a.trigger, a.keys,
                                          a.action_type, a.duration, a.action_steps)
        IN /\ op' = "handle_create_command"
           /\ arg' = a
           /\ storage' = done[1]
           /\ result' = done[2]
           /\ UNCHANGED <<Executor, exported, parked, context>>

\* await storage.update(...)
Update ==
    \E a \in UpdateInputs :
        LET done == storage_update(storage, a.name, a.trigger_phrase, a.action_type,
                                   a.keys, a.duration, a.response)
        IN /\ op' = "update"
           /\ arg' = a
           /\ storage' = done[1]
           /\ result' = done[2]
           /\ UNCHANGED <<Executor, exported, parked, context>>

\* await manager.delete(name)
Delete ==
    \E name \in MacroNames :
        LET done == storage_delete(storage, Str(strip(lower(name))))
        IN /\ op' = "delete"
           /\ arg' = [name |-> name]
           /\ storage' = done[1]
           /\ result' = done[2]
           /\ UNCHANGED <<Executor, exported, parked, context>>

\* await storage.record_usage(name), as manager.execute does on success
RecordUsage ==
    \E name \in {"boost"} :
        /\ \A j \in DOMAIN storage.rows :
              storage.rows[j].name = name => storage.rows[j].use_count < MaxUses
        /\ op' = "record_usage"
        /\ arg' = [name |-> name]
        /\ storage' = record_usage(storage, name)
        /\ result' = Null
        /\ UNCHANGED <<Executor, exported, parked, context>>

\* await manager.import_macros(json_data, overwrite)
ImportJson ==
    \E json_data \in ImportDocuments, overwrite \in BOOLEAN :
        LET done == import_json(storage, json_data, overwrite)
        IN /\ op' = "import_json"
           /\ arg' = [json_data |-> json_data, overwrite |-> overwrite]
           /\ storage' = done[1]
           /\ result' = done[2]
           /\ UNCHANGED <<Executor, exported, parked, context>>

NextMacros ==
    \/ NewStorage
    \/ Initialize
    \/ Create
    \/ HandleCreateCommand
    \/ Update
    \/ Delete
    \/ RecordUsage
    \/ ImportJson

SpecMacros == InitMacros /\ [][NextMacros]_vars

\* ------------------------------------------- the export/import specification
\* exported = await manager.export()
ExportJson ==
    LET done == export_json(storage)
    IN /\ op' = "export_json"
       /\ arg' = [name |-> ""]
       /\ storage' = done[1]
       /\ exported' = done[2]
       /\ UNCHANGED parked
       /\ result' = done[2]
       /\ UNCHANGED <<Executor, context>>

\* MacroStorage(db_path) on a file that does not exist yet.
NewDatabase ==
    /\ op' = "MacroStorage"
    /\ arg' = [name |-> ""]
    /\ storage' = NoStorage
    /\ result' = Null
    /\ UNCHANGED <<Executor, exported, parked, context>>

\* await manager.import_macros(exported, overwrite)
ImportExported ==
    \E overwrite \in BOOLEAN :
        LET done == import_json(storage, exported, overwrite)
        IN /\ exported # NoExport
           /\ op' = "import_json"
           /\ arg' = [json_data |-> exported, overwrite |-> overwrite]
           /\ storage' = done[1]
           /\ result' = done[2]
           /\ UNCHANGED <<Executor, exported, parked, context>>

\* A store is filled, exported once, and the text is imported into the
\* database of another file.
NextRoundTrip ==
    \/ exported = NoExport /\ Create
    \/ exported = NoExport /\ Update
    \/ exported = NoExport /\ Delete
    \/ exported = NoExport /\ RecordUsage
    \/ exported = NoExport /\ ImportJson
    \/ exported = NoExport /\ ExportJson
    \/ op = "export_json" /\ NewDatabase
    \/ op = "MacroStorage" /\ ImportExported

SpecRoundTrip == InitMacros /\ [][NextRoundTrip]_vars

\* ========================================================================
\* The Conversation Context (roland/llm/context.py, ContextManager).
\*
\* `context.history` is the deque _history, oldest turn first.

\* ConversationTurn(role, content, command); the timestamp is left out.
ConversationTurn(role, content, command) ==
    [role |-> role, content |-> content, command |-> command]

\* Faulty variant: a deque without maxlen.
deque_append_Unbounded(history, maxlen, turn) == Append(history, turn)

\* deque(maxlen=maxlen).append(turn): a full deque drops its leftmost item.
deque_append(history, maxlen, turn) ==
    IF maxlen = 0 THEN history
    ELSE IF Len(history) >= maxlen THEN Append(Tail(history), turn)
    ELSE Append(history, turn)

\* ContextManager(max_turns)
ContextManager(max_turns) ==
    [max_turns |-> max_turns, history |-> <<>>, last_command |-> Null,
     last_user_input |-> Null]

add_user_input(ctx, text) ==
    [ctx EXCEPT !.history = deque_append(@, ctx.max_turns * 2,
                                         ConversationTurn("user", text, Null)),
                !.last_user_input = Str(text)]

add_response(ctx, response, command) ==
    [ctx EXCEPT !.history = deque_append(@, ctx.max_turns * 2,
                                         ConversationTurn("assistant", response, command)),
                !.last_command = IF command = Null THEN @ ELSE command]

add(ctx, user_input, command) ==
    add_response(add_user_input(ctx, user_input), command.x.response, command)

clear(ctx) ==
    [ctx EXCEPT !.history = <<>>, !.last_command = Null, !.last_user_input = Null]

\* Faulty variant: the scan starts at the oldest turn.
RECURSIVE get_last_keyboard_command_OldestFirst(_)
get_last_keyboard_command_OldestFirst(ctx) ==
    IF ctx.history = <<>> THEN Null
    ELSE LET turn == Head(ctx.history)
         IN IF turn.command.t = "command" /\ turn.command.x.type \in KeyboardCommandTypes
            THEN turn.command
            ELSE get_last_keyboard_command_OldestFirst([ctx EXCEPT !.history = Tail(@)])

\* for turn in reversed(self._history):
\*     if turn.command and turn.command.is_keyboard_action: return turn.command
\* return None
RECURSIVE get_last_keyboard_command(_)
get_last_keyboard_command(ctx) ==
    IF ctx.history = <<>> THEN Null
    ELSE LET turn == ctx.history[Len(ctx.history)]
         IN IF turn.command.t = "command" /\ turn.command.x.type \in KeyboardCommandTypes
            THEN turn.command
            ELSE get_last_keyboard_command(
                     [ctx EXCEPT !.history = SubSeq(@, 1, Len(@) - 1)])

\* ----------------------------------------------------------- context inputs
UserInputs == {"jump", "again"}
Commands ==
    {V("command", [type |-> "press_key", response |-> "Jumping."]),
     V("command", [type |-> "key_combo", response |-> "Switching."]),
     V("command", [type |-> "speak_only", response |-> "Hello."])}

\* --------------------------------------------- the context specification
InitContext ==
    /\ require_focus = FALSE
    /\ held = <<>>
    /\ frames = <<>>
    /\ ret = FALSE
    /\ op = "none"
    /\ arg = [text |-> ""]
    /\ held0 = <<>>
    /\ log = <<>>
    /\ result = Null
    /\ intr = NoIntr
    /\ cleanups = <<>>
    /\ storage = NoStorage
    /\ exported = NoExport
    /\ context \in {ContextManager(max_turns) : max_turns \in 1 .. MaxTurns}
    /\ parked = NoParked

AddUserInput ==
    \E text \in UserInputs :
        /\ op' = "add_user_input"
        /\ arg' = [text |-> text]
        /\ context' = add_user_input(context, text)
        /\ UNCHANGED <<Executor, result, storage, exported, parked>>

AddResponse ==
    \E command \in Commands \cup {Null} :
        LET response == IF command = Null THEN "Standing by." ELSE command.x.response
        IN /\ op' = "add_response"
           /\ arg' = [response |-> response, command |-> command]
           /\ context' = add_response(context, response, command)
           /\ UNCHANGED <<Executor, result, storage, exported, parked>>

Add ==
    \E user_input \in UserInputs, command \in Commands :
        /\ op' = "add"
        /\ arg' = [command |-> command, user_input |-> user_input]
        /\ context' = add(context, user_input, command)
        /\ UNCHANGED <<Executor, result, storage, exported, parked>>

Clear ==
    /\ op' = "clear"
    /\ arg' = [text |-> ""]
    /\ context' = clear(context)
    /\ UNCHANGED <<Executor, result, storage, exported, parked>>

\* command = context.get_last_keyboard_command()
GetLastKeyboardCommand ==
    /\ op' = "get_last_keyboard_command"
    /\ arg' = [text |-> ""]
    /\ result' = get_last_keyboard_command(context)
    /\ UNCHANGED <<Executor, storage, exported, parked, context>>

NextContext ==
    \/ AddUserInput
    \/ AddResponse
    \/ Add
    \/ Clear
    \/ GetLastKeyboardCommand

SpecContext == InitContext /\ [][NextContext]_vars

\* ========================================================================
\* The Orchestrator (roland/main.py, Roland).
\*
\* `frames` has Roland._process_command at the bottom while an utterance is
\* being handled and the executor's coroutines above it; `op` is the handler
\* that took the utterance, `arg` the utterance, the model's answer and the
\* Command parsed from it, `log` what the executor did for the utterance and
\* `result` how the handling ended: "true" or "false" for the success that
\* was spoken, "spoken" for a response spoken without any execution,
\* "raised" and "cancelled" for an exception that left _process_command,
\* "error" once run() has logged main_loop_error.
\*
\* Roland.__init__ builds two executors: Roland.keyboard from the settings,
\* and, in MacroManager(), MacroManager.executor: KeyboardExecutor has no
\* from_config, so that `executor or KeyboardExecutor.from_config() if
\* hasattr(KeyboardExecutor, 'from_config') else KeyboardExecutor()` is
\* KeyboardExecutor() whatever `executor` is.  `require_focus` and `held`
\* are those of the executor in use, `parked` is the other one.
MacroExecutor == [name |-> "MacroManager.executor", require_focus |-> TRUE, held |-> <<>>]

\* The parked executor comes into use and the one in use is parked.
SwitchExecutor ==
    /\ require_focus' = parked.require_focus
    /\ held' = parked.held
    /\ parked' = [name |-> IF parked.name = "MacroManager.executor" THEN "Roland.keyboard"
                           ELSE "MacroManager.executor",
                  require_focus |-> require_focus, held |-> held]

SameExecutor == UNCHANGED <<require_focus, held, parked>>

\* The characters of the utterances and of the trigger phrases stored here.
CharsOf ==
    ("" :> <<>>)
    @@ ("again" :> <<"a", "g", "a", "i", "n">>)
    @@ ("boost" :> <<"b", "o", "o", "s", "t">>)
    @@ ("gear" :> <<"g", "e", "a", "r">>)
    @@ ("fire" :> <<"f", "i", "r", "e">>)

\* ContextManager.is_repeat_request
repeat_phrases ==
    {<<"r", "e", "p", "e", "a", "t">>,
     <<"d", "o", " ", "t", "h", "a", "t", " ", "a", "g", "a", "i", "n">>,
     <<"a", "g", "a", "i", "n">>,
     <<"s", "a", "m", "e", " ", "a", "g", "a", "i", "n">>,
     <<"o", "n", "e", " ", "m", "o", "r", "e", " ", "t", "i", "m", "e">>,
     <<"d", "o", " ", "i", "t", " ", "a", "g", "a", "i", "n">>,
     <<"r", "e", "p", "e", "a", "t", " ", "t", "h", "a", "t">>,
     <<"s", "a", "m", "e", " ", "t", "h", "i", "n", "g">>}
is_repeat_request(text) ==
    LET text_lower == StripText(LowerText(CharsOf[text]))
    IN \E phrase \in repeat_phrases : IsSubstring(phrase, text_lower)

\* MacroStorage.find_by_trigger on an initialized store: the macro whose
\* trigger phrase is the text, else the first macro whose trigger phrase
\* occurs in the text, else None.
find_by_trigger(st, text) ==
    LET text_lower == StripText(LowerText(CharsOf[text]))
        exact == {j \in DOMAIN st.rows :
                    LowerText(CharsOf[st.rows[j].trigger_phrase]) = text_lower}
        partial == {j \in DOMAIN st.rows :
                      IsSubstring(LowerText(CharsOf[st.rows[j].trigger_phrase]), text_lower)}
    IN IF exact # {}
       THEN V("macro", row_to_dict(st.rows[CHOOSE j \in exact : \A m \in exact : j <= m]))
       ELSE IF partial # {}
       THEN V("macro", row_to_dict(st.rows[CHOOSE j \in partial : \A m \in partial : j <= m]))
       ELSE Null

\* The keybinds file: one keybind, pressed on its alias "gear".
RolandKeybinds == <<Keybind("landing_gear", << CharsOf["gear"] >>)>>
KeybindAction == "press"
KeybindKeys == <<"n">>

\* Command.key_action
key_action(type) ==
    IF type = "hold_key" THEN "hold"
    ELSE IF type = "key_combo" THEN "combo"
    ELSE "press"

\* The Command parse returns for a document; the documents here have no
\* "response" and no "trigger_phrase", so that response is the default text
\* and trigger_phrase is macro_name.
Command(response) ==
    LET parsed == parse(response).x
    IN V("command",
         [keys |-> parsed.keys, steps |-> parsed.steps, duration |-> parsed.duration,
          type |-> parsed.type, macro_name |-> parsed.macro_name,
          macro_steps |-> parsed.macro_steps, macro_keys |-> parsed.macro_keys,
          macro_action_type |-> parsed.macro_action_type,
          response |-> "Acknowledged, Commander."])

\* A duration as the executor takes it, in milliseconds; None and 0.0 are 0.
Millis(duration) == IF duration.t = "num" THEN duration.x ELSE 0

\* ------------------------------------------------------ orchestrator inputs
\* Longest run of utterances followed.
MaxUtterances == 2

Utterances == {"again", "boost", "gear", "fire"}

KeysDocument(action, keys, duration) ==
    Document(action, keys, Absent, duration, Absent, Absent, Absent, Absent)
MacroDocument(macro_name, macro_steps, macro_keys, macro_action_type) ==
    Document(Str("create_macro"), Absent, Absent, Absent, macro_name, macro_steps, macro_keys, macro_action_type)
PressTwice ==
    StepDocument(Str("press_key"), List(<<Str("W")>>), Num(2000), Absent, Absent, Absent)

\* What the language model answers: keyboard commands (one with a key
\* outside the allow-list), a complex action, macros with steps, with a key
\* outside the allow-list, with a key to hold and without a name, the removal
\* of a macro, a spoken answer, and an answer without an action.
Intents ==
    {KeysDocument(Str("press_key"), List(<<Str("#"), Str("W")>>), Absent),
     KeysDocument(Str("HOLD_KEY"), Str(" W "), Num(2500)),
     Document(Str("complex_action"), Absent, List(<<PressTwice>>), Absent, Absent, Absent, Absent, Absent),
     MacroDocument(Str(" Boost "), List(<<PressTwice>>), Absent, Absent),
     MacroDocument(Str(" Boost "), Absent, List(<<Str("#")>>), Absent),
     MacroDocument(Str(" Boost "), Absent, List(<<Str("W")>>), Str("hold_key")),
     MacroDocument(Absent, Absent, Str("W"), Absent),
     Document(Str("delete_macro"), Absent, Absent, Absent, Str(" Boost "), Absent, Absent, Absent),
     KeysDocument(Str("speak_only"), Absent, Absent),
     KeysDocument(Null, Absent, Absent)}

\* --------------------------------------------------- the main loop's steps
ProcessCommandFrame == [fn |-> "_process_command", pc |-> "await"]

\* run() is at the head of its loop: nothing is being handled and no
\* exception is on its way.
AtLoopHead ==
    /\ frames = <<>>
    /\ op # "release_all_held_keys"
    /\ result \notin {"pending", "raised", "cancelled"}
    /\ parked.name = "MacroManager.executor"

\* _process_command has transcribed `text`, the next utterance.
Heard(text, response, command) ==
    /\ AtLoopHead
    /\ arg.i < MaxUtterances
    /\ arg' = [i |-> arg.i + 1, text |-> text, response |-> response, command |-> command]
    /\ log' = <<>>
    /\ intr' = NoIntr
    /\ UNCHANGED <<held0, cleanups, exported>>

\* _process_command awaits the executor's coroutine f.
AwaitExecutor(f) ==
    /\ frames' = <<ProcessCommandFrame, f>>
    /\ result' = "pending"
    /\ ret' = ret

\* _process_command returns, having spoken.
Returned(spoken) ==
    /\ frames' = <<>>
    /\ result' = spoken
    /\ ret' = ret

\* _process_command up to _handle_repeat, and _handle_repeat up to its await.
HandleRepeat ==
    /\ AtLoopHead
    /\ \E text \in Utterances :
        /\ is_repeat_request(text)
        /\ Heard(text, Null, Null)
        /\ op' = "_handle_repeat"
        /\ LET last_cmd == get_last_keyboard_command(context)
           IN IF last_cmd.t = "command"
              THEN AwaitExecutor(ExecuteActionFrame(key_action(last_cmd.x.type),
                                                    last_cmd.x.keys,
                                                    Millis(last_cmd.x.duration)))
              ELSE Returned("spoken")
        /\ SameExecutor
        /\ UNCHANGED <<storage, context>>

\* MacroManager.execute up to its await.  The store of this specification
\* starts empty and _execute_command is all that writes to it, so that no
\* macro has action_steps (StoreHoldsNoSteps) and execute always takes
\* _execute_legacy.
execute_legacy(macro) ==
    LET action == key_action(Get(macro.action_type, Str("press_key")).x)
    IN ExecuteActionFrame(action, macro.keys.x,
                          IF action = "hold" THEN Millis(macro.duration) ELSE 0)

StoreHoldsNoSteps ==
    \A j \in DOMAIN storage.rows : row_to_dict(storage.rows[j]).action_steps = Null

\* _process_command up to _execute_macro, and _execute_macro up to the await
\* inside MacroManager.execute, which is on MacroManager.executor.
ExecuteMacro ==
    /\ AtLoopHead
    /\ \E text \in Utterances :
        /\ ~is_repeat_request(text)
        /\ find_by_trigger(initialize(storage), text) # Null
        /\ Heard(text, Null, Null)
        /\ op' = "_execute_macro"
        /\ storage' = initialize(storage)
        /\ AwaitExecutor(execute_legacy(find_by_trigger(initialize(storage), text).x))
        /\ SwitchExecutor
        /\ UNCHANGED context

\* _process_command up to _execute_keybind, and _execute_keybind up to its
\* await.
ExecuteKeybind ==
    /\ AtLoopHead
    /\ \E text \in Utterances :
        /\ ~is_repeat_request(text)
        /\ find_by_trigger(initialize(storage), text) = Null
        /\ find_by_alias(RolandKeybinds, CharsOf[text]) # "None"
        /\ Heard(text, Null, Null)
        /\ op' = "_execute_keybind"
        /\ storage' = initialize(storage)
        /\ AwaitExecutor(ExecuteActionFrame(KeybindAction, KeybindKeys, 0))
        /\ SameExecutor
        /\ UNCHANGED context

\* _execute_command's call of handle_create_command: name, trigger, keys,
\* action_type and duration are handed over, action_steps is not.
create_macro(st, command) ==
    handle_create_command(st, command.macro_name.x, command.macro_name,
                          IF Falsy(command.macro_keys) THEN List(<<>>)
                          ELSE command.macro_keys,
                          IF Falsy(command.macro_action_type) THEN Str("press_key")
                          ELSE command.macro_action_type,
                          command.duration, Null)

\* _process_command from the language model's answer on, and
\* _execute_command up to its await or, when it awaits nothing of the
\* executor, to its end.
ExecuteCommand ==
    /\ AtLoopHead
    /\ \E text \in Utterances, response \in Intents :
        /\ ~is_repeat_request(text)
        /\ find_by_trigger(initialize(storage), text) = Null
        /\ find_by_alias(RolandKeybinds, CharsOf[text]) = "None"
        /\ op' = "_execute_command"
        /\ SameExecutor
        /\ IF IsRaised(parse(response))
           THEN /\ Heard(text, response, Null)
                /\ Returned("raised")
                /\ storage' = initialize(storage)
                /\ UNCHANGED context
           ELSE LET command == Command(response)
                    created == create_macro(initialize(storage), command.x)
                IN /\ Heard(text, response, command)
                   /\ IF command.x.type = "create_macro"
                      THEN /\ storage' = created[1]
                           /\ IF IsRaised(created[2])
                              THEN Returned("raised") /\ UNCHANGED context
                              ELSE /\ Returned(IF created[2].x.success THEN "true"
                                               ELSE "false")
                                   /\ context' = add(context, text, command)
                      ELSE IF command.x.type = "delete_macro"
                      THEN /\ storage' = storage_delete(initialize(storage),
                                                        command.x.macro_name)[1]
                           /\ Returned(IF HasName(storage, command.x.macro_name.x)
                                       THEN "true" ELSE "false")
                           /\ context' = add(context, text, command)
                      ELSE IF command.x.type \in KeyboardCommandTypes
                      THEN /\ AwaitExecutor(ExecuteActionFrame(
                                                key_action(command.x.type), command.x.keys,
                                                Millis(command.x.duration)))
                           /\ storage' = initialize(storage)
                           /\ UNCHANGED context
                      ELSE /\ Returned("spoken")
                           /\ storage' = initialize(storage)
                           /\ context' = add(context, text, command)

\* The executor's coroutine has returned `ret` to the handler, which speaks
\* and returns: _execute_command records the turn, MacroManager.execute
\* records the usage of a macro that succeeded.
ProcessCommandReturns ==
    /\ Running("_process_command", {"await"})
    /\ Returned(IF ret THEN "true" ELSE "false")
    /\ log' = log
    /\ intr' = intr
    /\ context' = IF op = "_execute_command" THEN add(context, arg.text, arg.command)
                  ELSE context
    /\ storage' = IF op = "_execute_macro" /\ ret
                  THEN record_usage(storage, find_by_trigger(storage, arg.text).x.name)
                  ELSE storage
    /\ IF op = "_execute_macro" THEN SwitchExecutor ELSE SameExecutor
    /\ UNCHANGED <<op, arg, held0, cleanups, exported>>

\* MacroManager.execute catches the exception of the executor and returns
\* False; _execute_macro speaks the failure.
ExecuteMacroCatches ==
    /\ frames = <<>>
    /\ op = "_execute_macro"
    /\ result = "raised"
    /\ result' = "false"
    /\ SwitchExecutor
    /\ UNCHANGED <<frames, ret, op, arg, held0, log, intr, cleanups, storage, exported,
                   context>>

\* `except Exception` does not catch the CancelledError delivered while
\* MacroManager.execute awaits its executor: it leaves execute and
\* _execute_macro and reaches run().
ExecuteMacroCancelled ==
    /\ frames = <<>>
    /\ op = "_execute_macro"
    /\ result = "cancelled"
    /\ parked.name = "Roland.keyboard"
    /\ SwitchExecutor
    /\ UNCHANGED <<frames, ret, op, arg, held0, log, result, intr, cleanups, storage,
                   exported, context>>

\* run() catches the exception that left _process_command, logs
\* main_loop_error and goes on with its loop.
MainLoopError ==
    /\ frames = <<>>
    /\ op \in {"_handle_repeat", "_execute_keybind", "_execute_command"}
    /\ result = "raised"
    /\ result' = "error"
    /\ UNCHANGED <<require_focus, held, frames, ret, op, arg, held0, log, intr, cleanups,
                   storage, exported, parked, context>>

\* run() leaves its loop, on `running` set to False by a quit request or a
\* signal at the head of the loop, or on CancelledError, and its `finally`
\* awaits _shutdown, which calls release_all_held_keys of Roland.keyboard
\* before anything else.
Shutdown ==
    /\ frames = <<>>
    /\ op # "release_all_held_keys"
    /\ result \notin {"pending", "raised"}
    /\ parked.name = "MacroManager.executor"
    /\ ReleaseAllHeldKeys

\* ------------------------------------------ the orchestrator specification
InitRoland ==
    /\ require_focus \in BOOLEAN
    /\ held = <<>>
    /\ frames = <<>>
    /\ ret = FALSE
    /\ op = "run"
    /\ arg = [i |-> 0, text |-> "", response |-> Null, command |-> Null]
    /\ held0 = <<>>
    /\ log = <<>>
    /\ result = "none"
    /\ intr = NoIntr
    /\ cleanups = <<>>
    /\ storage = NoStorage
    /\ exported = NoExport
    /\ context = ContextManager(10)
    /\ parked = MacroExecutor

NextRoland ==
    \/ HandleRepeat
    \/ ExecuteMacro
    \/ ExecuteKeybind
    \/ ExecuteCommand
    \/ ProcessCommandReturns
    \/ ExecuteMacroCatches
    \/ ExecuteMacroCancelled
    \/ MainLoopError
    \/ Shutdown
    \/ ExecuteActionBegin
    \/ ExecuteActionResume
    \/ PressKeyBegin
    \/ PressKeyEnd
    \/ HoldKeyBegin
    \/ HoldKeyEnd
    \/ Cancel

SpecRoland == InitRoland /\ [][NextRoland]_vars

\* ================================================================ claims
\* ----------------------------------------------------------- log queries
IsFocus(x) == x.e = "focus"
\* The gate was consulted and answered "not focused".
IsDenied(x) == x.e = "focus" /\ x.v = 0
IsPress(x) == x.e = "press"
IsRelease(x) == x.e = "release"
IsKeyboardCall(x) == x.e \in {"press", "release"}
IsRep(x) == x.e = "rep"
IsSleepOf(x, kind) == x.e = "sleep" /\ x.k = kind
Presses(lg) == SelectSeq(lg, IsPress)
Releases(lg) == SelectSeq(lg, IsRelease)
KeyboardCalls(lg) == SelectSeq(lg, IsKeyboardCall)
Reps(lg) == SelectSeq(lg, IsRep)
SleepsOf(lg, kind) == SelectSeq(lg, LAMBDA x : IsSleepOf(x, kind))
Last(lg) == lg[Len(lg)]

\* hold_key was interrupted after its press returned and before its
\* release returned: cancelled in the sleep, or the release raised.
InterruptedHold ==
    /\ result \in {"raised", "cancelled"}
    /\ intr.fn = "hold_key"
    /\ intr.at \in {"sleep", "release"}

\* C1: a hold_key interrupted between press and release leaves its key in
\* the held-key list at that moment, and a release_all_held_keys call made
\* next issues a release for that key.
C1_InterruptedHoldStaysTracked ==
    [][/\ InterruptedHold' => intr'.k \in Elems(held')
       /\ (InterruptedHold /\ op' = "release_all_held_keys")
            => \E i \in DOMAIN log' : log'[i].e = "release" /\ log'[i].k = intr.k]_vars

C1_Witness ==
    /\ InterruptedHold
    /\ result = "cancelled"
    /\ Last(log) = Ev("sleep", "hold", HOLD_DURATION)
    /\ held = <<intr.k>>

\* C2: from an empty held-key list, the list is empty again whenever
\* hold_key or key_combo has returned True or False; it is non-empty only
\* while a hold_key is between its press and its release (suspended in its
\* sleep, or interrupted there), and then holds exactly that key.
C2_HeldEmptyOnceReturned ==
    held0 = <<>> =>
        /\ (op \in {"hold_key", "key_combo"} /\ result \in {"true", "false"})
              => held = <<>>
        /\ held # <<>> =>
              \/ Running("hold_key", {"sleep"}) /\ held = <<resolve_key(Top.key)>>
              \/ InterruptedHold /\ held = <<intr.k>>

C2_Witness ==
    /\ op = "hold_key"
    /\ result = "true"
    /\ held0 = <<>>
    /\ held = <<>>
    /\ Len(KeyboardCalls(log)) = 2

\* C3: with focus checking on and the gate answering "not focused",
\* press_key, hold_key, key_combo and type_string return False, call
\* neither keyboard.press nor keyboard.release, and leave the held-key list
\* as it was.
C3_FocusDeniedBlocksInput ==
    (/\ op \in {"press_key", "hold_key", "key_combo", "type_string"}
     /\ require_focus
     /\ log # <<>>
     /\ IsDenied(log[1]))
        => /\ frames = <<>>
           /\ result = "false"
           /\ KeyboardCalls(log) = <<>>
           /\ Len(log) = 1
           /\ held = held0

C3_Witness ==
    /\ op = "key_combo"
    /\ arg.keys # <<>>
    /\ require_focus
    /\ Len(log) = 1
    /\ IsDenied(log[1])
    /\ result = "false"
    /\ held0 # <<>>

\* C4: release_all_held_keys always returns (it never raises, whichever
\* releases fail) with the held-key list empty; called twice in a row, the
\* second call issues no release and leaves the same empty list.
C4_ReleaseAllIdempotent ==
    /\ op = "release_all_held_keys" => result = "returned" /\ held = <<>>
    /\ Len(cleanups) = 2 =>
          /\ cleanups[2] = <<>>
          /\ log = <<>>
          /\ held0 = <<>>
          /\ held = <<>>

C4_Witness ==
    /\ Len(cleanups) = 2
    /\ Len(cleanups[1]) = 2
    /\ cleanups[1][1].v = 0
    /\ result = "returned"

KeysPerRepetition(step) ==
    IF step.action_type = "key_combo" THEN Len(step.keys) ELSE 1

\* The repetition that log entry x stands for failed: its focus check was
\* denied, or its action type is none of press_key, hold_key, key_combo.
IsFailedRepetition(x) ==
    \/ IsDenied(x)
    \/ x.e = "rep" /\ x.k \notin KnownActionTypes

\* C6: a successful execute_step of a step with repeat_count = N (N within
\* 1..50) has run N repetitions, each pressing and releasing the step's
\* keys once, and has slept delay_after once, as the last thing it did
\* (a delay_after of 0 is no sleep at all).
C6_RepeatsExactlyN ==
    (/\ op = "execute_step"
     /\ result = "true"
     /\ arg.repeat_count \in 1 .. MAX_REPEAT_COUNT)
        => /\ Len(Reps(log)) = arg.repeat_count
           /\ Len(Presses(log)) = arg.repeat_count * KeysPerRepetition(arg)
           /\ Len(Releases(log)) = arg.repeat_count * KeysPerRepetition(arg)
           /\ IF arg.delay_after > 0
              THEN /\ SleepsOf(log, "after") = <<Ev("sleep", "after", arg.delay_after)>>
                   /\ Last(log) = Ev("sleep", "after", arg.delay_after)
              ELSE SleepsOf(log, "after") = <<>>

C6_Witness ==
    /\ op = "execute_step"
    /\ result = "true"
    /\ arg.repeat_count = 2
    /\ arg.action_type = "key_combo"
    /\ arg.delay_after > 0
    /\ Len(Presses(log)) = 4

\* C7: a successful execute_step of a step whose repeat_count is 0,
\* negative or above 50 has run at least 1 and at most 50 repetitions.
C7_RepeatCountClamped ==
    (/\ op = "execute_step"
     /\ result = "true"
     /\ arg.repeat_count \notin 1 .. MAX_REPEAT_COUNT)
        => Len(Reps(log)) \in 1 .. MAX_REPEAT_COUNT

\* The rep entries and the between-repetition sleeps of the log, in order.
RepsAndPauses(lg) == SelectSeq(lg, LAMBDA x : IsRep(x) \/ IsSleepOf(x, "between"))

\* C8: execute_step sleeps between repetitions only when delay_between > 0,
\* one sleep after every repetition but the last, each of
\* max(delay_between, 0.02 s): a delay in (0, 0.02) becomes exactly 0.02.
C8_DelayBetweenFloor ==
    op = "execute_step" =>
        LET P == RepsAndPauses(log)
            pauses == SleepsOf(log, "between")
        IN /\ arg.delay_between = 0 => pauses = <<>>
           /\ arg.delay_between > 0 =>
                /\ \A i \in DOMAIN P : IsRep(P[i]) <=> (i % 2 = 1)
                /\ \A i \in DOMAIN pauses :
                      pauses[i].v = Max(arg.delay_between, MIN_REPEAT_DELAY)
                /\ (arg.delay_between < MIN_REPEAT_DELAY) =>
                      \A i \in DOMAIN pauses : pauses[i].v = MIN_REPEAT_DELAY
                /\ result = "true" =>
                      Len(pauses) = Max(Len(Reps(log)) - 1, 0)

C8_Witness ==
    /\ op = "execute_step"
    /\ result = "true"
    /\ arg.delay_between \in 1 .. (MIN_REPEAT_DELAY - 1)
    /\ Len(Reps(log)) = 2
    /\ SleepsOf(log, "between") = <<Ev("sleep", "between", MIN_REPEAT_DELAY)>>

\* C9: in execute_step nothing follows a failed repetition: no further
\* repetition, no sleep, no keyboard call; the call returns False, and the
\* presses and releases of the repetitions before it are all there is.
C9_AbortsOnFirstFailure ==
    op = "execute_step" =>
        /\ \A p \in DOMAIN log :
              IsFailedRepetition(log[p]) =>
                  /\ p = Len(log)
                  /\ result \in {"pending", "false"}
                  /\ result = "pending" => Running("execute_step", {"await"})
        /\ (result = "false" /\ arg.keys # <<>>) =>
              /\ IsFailedRepetition(Last(log))
              /\ SleepsOf(log, "after") = <<>>
              /\ Len(Presses(log)) = (Len(Reps(log)) - 1) * KeysPerRepetition(arg)
              /\ Len(Releases(log)) = Len(Presses(log))
              /\ \A i \in DOMAIN log : IsKeyboardCall(log[i]) => log[i].v = 1

C9_Witness ==
    /\ op = "execute_step"
    /\ result = "false"
    /\ Len(Reps(log)) = 2
    /\ Len(Presses(log)) = 1
    /\ IsDenied(Last(log))
    /\ arg.delay_after > 0

IsStep(x) == x.e = "step"
IsStepRet(x) == x.e = "step_ret"
StepsBegun(lg) == SelectSeq(lg, IsStep)
StepsReturned(lg) == SelectSeq(lg, IsStepRet)

\* C10: execute_sequence begins its steps in list order, each repetition
\* running the action of the step it belongs to; nothing follows a step
\* that returned False (the call returns False at once, later steps never
\* begin, what earlier steps did stays in the log); it returns True only
\* when every step of a non-empty list returned True.
C10_SequenceInOrderAbortsOnFailure ==
    op = "execute_sequence" =>
        LET S == StepsBegun(log)
            R == StepsReturned(log)
        IN /\ Len(S) <= Len(arg.steps)
           /\ \A i \in DOMAIN S : S[i].v = i
           /\ \A p \in DOMAIN log :
                 IsRep(log[p]) =>
                     log[p].k = arg.steps[Len(StepsBegun(SubSeq(log, 1, p)))].action_type
           /\ \A p \in DOMAIN log :
                 (IsStepRet(log[p]) /\ log[p].v = 0) =>
                     p = Len(log) /\ result = "false"
           /\ result = "true" =>
                 /\ arg.steps # <<>>
                 /\ Len(R) = Len(arg.steps)
                 /\ \A i \in DOMAIN R : R[i].v = 1
           /\ result = "false" =>
                 \/ Len(log) = 1 /\ IsDenied(log[1])
                 \/ arg.steps = <<>> /\ Len(log) = 1 /\ IsFocus(log[1]) /\ log[1].v = 1
                 \/ Last(log) = Ev("step_ret", "", 0) /\ Len(S) = Len(R)

C10_Witness ==
    /\ op = "execute_sequence"
    /\ result = "false"
    /\ Len(arg.steps) = 2
    /\ Len(StepsBegun(log)) = 1
    /\ Len(Presses(log)) = 1
    /\ Len(Releases(log)) = 1
    /\ Last(log) = Ev("step_ret", "", 0)

Focuses(lg) == SelectSeq(lg, IsFocus)

\* C11: during one execute_sequence call the focus gate is consulted once,
\* as the first thing the call does, and never again for a step or a
\* repetition.
C11_SingleFocusCheck ==
    op = "execute_sequence" =>
        \A p \in DOMAIN log : IsFocus(log[p]) => p = 1

\* C12: a key_combo that returned True has consulted the gate once, first,
\* has pressed its keys in the listed order, all of them before any
\* release, and has then released them in the reverse order, one press and
\* one release per listed key.
C12_ComboPressesThenReleasesReversed ==
    (op = "key_combo" /\ result = "true") =>
        LET r == ResolveAll(arg.keys)
            n == Len(r)
            K == KeyboardCalls(log)
        IN /\ n > 0
           /\ Len(K) = 2 * n
           /\ \A i \in 1 .. n :
                 /\ K[i] = Ev("press", r[i], 1)
                 /\ K[n + i] = Ev("release", r[n + 1 - i], 1)
           /\ Len(Focuses(log)) = 1
           /\ IsFocus(log[1])

C12_Witness ==
    /\ op = "key_combo"
    /\ result = "true"
    /\ arg.keys = <<"ctrl", "A">>
    /\ require_focus
    /\ log[1] = Ev("focus", "game", 1)
    /\ Len(KeyboardCalls(log)) = 4

\* C13: key_combo with an empty key list, and execute_action for press,
\* hold or combo with an empty key list, return False and call neither
\* keyboard.press nor keyboard.release.
C13_EmptyKeysFail ==
    (/\ frames = <<>>
     /\ \/ op = "key_combo" /\ arg.keys = <<>>
        \/ /\ op = "execute_action"
           /\ arg.action \in {"press", "hold", "combo"}
           /\ arg.keys = <<>>)
        => /\ result = "false"
           /\ KeyboardCalls(log) = <<>>

\* C14: release_key returns True only for a key that is in the held-key
\* list, having released it and removed it from the tracked keys; for a key
\* that is not tracked it returns False, calls no keyboard.release and
\* leaves the list as it was.
C14_ReleaseOnlyIfHeld ==
    op = "release_key" =>
        LET k == resolve_key(arg.key)
        IN /\ result = "true" =>
                 /\ k \in Elems(held0)
                 /\ log = <<Ev("release", k, 1)>>
                 /\ k \notin Elems(held)
           /\ k \notin Elems(held0) =>
                 /\ result = "false"
                 /\ log = <<>>
                 /\ held = held0

\* C15: with focus checking on, a gate whose OS check could not be made
\* (tool missing, timeout, any error) answers "focused": the press_key,
\* hold_key, key_combo or type_string call that consulted it is not refused
\* and goes on to its first key press.
C15_FocusGateFailsOpen ==
    (/\ op \in {"press_key", "hold_key", "key_combo", "type_string"}
     /\ require_focus
     /\ log # <<>>
     /\ IsFocus(log[1])
     /\ log[1].k = "failed")
        => /\ log[1].v = 1
           /\ result = "false" => (op = "key_combo" /\ arg.keys = <<>>)
           /\ (op \in {"press_key", "hold_key"} \/ (op = "key_combo" /\ arg.keys # <<>>))
                 => (Len(log) >= 2 /\ log[2].e = "press")
           /\ (op = "type_string" /\ arg.text # <<>> /\ Len(log) = 1)
                 => Running("type_string", {"typing"})

C15_Witness ==
    /\ op = "hold_key"
    /\ require_focus
    /\ result = "true"
    /\ log[1] = Ev("focus", "failed", 1)
    /\ Len(KeyboardCalls(log)) = 2

\* ------------------------------------------------------------------ parse
IsAllowed(key) == key \in ALLOWED_KEYS
\* A float within [0, max_duration].
InRange(f) == f.t = "num" /\ f.x >= 0 /\ f.x <= MAX_DURATION
\* All the ActionSteps of a Command.
AllSteps(command) == command.steps \o command.macro_steps

\* C16: parse returns a Command for every intent document, whatever is
\* missing from it or of the wrong type, and a Command of type unknown when
\* the action is not the name of a command type.
C16_ParseNeverRaises ==
    op = "parse" =>
        /\ result.t = "command"
        /\ LET action == Get(arg.action, Str(""))
           IN (action.t = "str" /\ lower(action.x) \notin CommandTypes)
                  => result.x.type = "unknown"

\* C17: in a Command returned by parse the duration, and the delay_between,
\* delay_after and duration of every step, are within [0, max_duration]; a
\* negative duration has become 0, one above max_duration has become
\* max_duration, and one that is no number has become 0.
C17_DurationsWithinRange ==
    (op = "parse" /\ result.t = "command") =>
        LET command == result.x
            duration == Get(arg.duration, Num(0))
        IN /\ InRange(command.duration)
           /\ \A j \in DOMAIN AllSteps(command) :
                 /\ InRange(AllSteps(command)[j].delay_between)
                 /\ InRange(AllSteps(command)[j].delay_after)
                 /\ InRange(AllSteps(command)[j].duration)
           /\ (duration.t = "num" /\ duration.x < 0) => command.duration = Num(0)
           /\ (duration.t = "num" /\ duration.x > MAX_DURATION)
                 => command.duration = Num(MAX_DURATION)
           /\ duration.t \in {"null", "list"} => command.duration = Num(0)

AllowedKeysOf(entry) ==
    SelectSeq(normalize_keys(Get(entry.x.keys, List(<<>>))), IsAllowed)
\* The entries of a steps value that can become an ActionStep.
KeptEntries(steps) ==
    IF steps.t # "list" THEN <<>>
    ELSE SelectSeq(steps.x, LAMBDA entry :
                       entry.t = "dict" /\ AllowedKeysOf(entry) # <<>>)
\* The steps value parse reads for the Command it returned.
StepsRead ==
    IF result.x.type = "complex_action" THEN Get(arg.steps, List(<<>>))
    ELSE IF result.x.type = "create_macro" THEN Get(arg.macro_steps, List(<<>>))
    ELSE List(<<>>)

\* C19: every ActionStep of a Command returned by parse has a non-empty key
\* list of allow-listed keys and a repeat_count within 1..50; the steps are
\* the document's entries in order, without the entries that are no dict
\* and those left with no allow-listed key.
C19_StepsValidated ==
    (op = "parse" /\ result.t = "command") =>
        LET S == AllSteps(result.x)
            kept == KeptEntries(StepsRead)
        IN /\ \A j \in DOMAIN S :
                 /\ S[j].keys # <<>>
                 /\ \A m \in DOMAIN S[j].keys : IsAllowed(S[j].keys[m])
                 /\ S[j].repeat_count \in 1 .. 50
           /\ Len(S) = Len(kept)
           /\ \A j \in DOMAIN S : S[j].keys = AllowedKeysOf(kept[j])

C19_Witness ==
    /\ op = "parse"
    /\ result.t = "command"
    /\ result.x.type = "complex_action"
    /\ arg.steps.t = "list"
    /\ Len(arg.steps.x) = 2
    /\ arg.steps.x[1].t = "dict"
    /\ AllowedKeysOf(arg.steps.x[1]) = <<>>
    /\ Len(result.x.steps) = 1
    /\ result.x.steps[1].keys = <<"w">>
    /\ arg.steps.x[2].x.repeat_count = Num(0)
    /\ result.x.steps[1].repeat_count = 1

\* ---------------------------------------------------------- find_by_alias
\* The three grounds on which an utterance selects an alias.
ExactlyAlias(alias, query) == LowerText(alias) = StripText(LowerText(query))
ContainsAlias(alias, query) == IsSubstring(LowerText(alias), StripText(LowerText(query)))
OverlapsAlias(alias, query) ==
    LET alias_words == Words(LowerText(alias))
        query_words == Words(StripText(LowerText(query)))
    IN /\ alias_words # {}
       /\ 2 * Cardinality(alias_words \cap query_words) >= Cardinality(alias_words)

\* C20: find_by_alias returns a keybind only if one of its aliases equals
\* the utterance (case aside), is contained in the utterance, or shares at
\* least half of its words with the utterance; otherwise it returns None.
C20_AliasMatchJustified ==
    (op = "find_by_alias" /\ result # "None") =>
        \E j \in DOMAIN arg.keybinds :
            /\ arg.keybinds[j].name = result
            /\ \E m \in DOMAIN arg.keybinds[j].aliases :
                  LET alias == arg.keybinds[j].aliases[m]
                  IN \/ ExactlyAlias(alias, arg.query)
                     \/ ContainsAlias(alias, arg.query)
                     \/ OverlapsAlias(alias, arg.query)

\* The (keybind, alias) pairs of the catalog the utterance was looked up in.
AliasPairs ==
    {p \in (DOMAIN arg.keybinds) \X (1 .. 3) : p[2] \in DOMAIN arg.keybinds[p[1]].aliases}
AliasAt(p) == arg.keybinds[p[1]].aliases[p[2]]
OwnerAt(p) == arg.keybinds[p[1]].name

\* C21: stage order, first hit wins. When an alias equals the utterance the
\* keybind returned owns such an alias; otherwise, when an alias is a
\* substring of the utterance, the keybind returned owns an alias that is a
\* substring of the utterance.
C21_FirstStageWins ==
    op = "find_by_alias" =>
        IF \E p \in AliasPairs : ExactlyAlias(AliasAt(p), arg.query)
        THEN \E p \in AliasPairs :
                OwnerAt(p) = result /\ ExactlyAlias(AliasAt(p), arg.query)
        ELSE (\E p \in AliasPairs : ContainsAlias(AliasAt(p), arg.query)) =>
                \E p \in AliasPairs :
                    OwnerAt(p) = result /\ ContainsAlias(AliasAt(p), arg.query)

\* The word-overlap score of an alias against the utterance.
ScoreOf(p) == Score(AliasAt(p), Words(StripText(LowerText(arg.query))))
IsMaximal(p) == \A q \in AliasPairs : ~ScoreGreater(ScoreOf(q), ScoreOf(p))

\* C22: when no alias equals the utterance and none is contained in it, the
\* keybind returned owns an alias of maximal word-overlap score if that
\* score is at least one half, and None is returned if every score is below
\* one half.
C22_FuzzyPicksBestScore ==
    (/\ op = "find_by_alias"
     /\ \A p \in AliasPairs : ~ExactlyAlias(AliasAt(p), arg.query)
     /\ \A p \in AliasPairs : ~ContainsAlias(AliasAt(p), arg.query)) =>
        IF \E p \in AliasPairs : ScoreAtLeastHalf(ScoreOf(p))
        THEN \E p \in AliasPairs :
                OwnerAt(p) = result /\ IsMaximal(p) /\ ScoreAtLeastHalf(ScoreOf(p))
        ELSE result = "None"

\* ------------------------------------------------------------ macro store
\* What a caller reads of the store: list_all() after initialize().
Macros(st) == list_all(initialize(st))
\* The step is a call of MacroManager.create, directly or through
\* handle_create_command.
IsCreateCall == op' \in {"create", "handle_create_command"}
\* The failure as each of the two entry points reports it.
Failure(error) ==
    IF op' = "create" THEN error
    ELSE V("tuple", [success |-> FALSE, reason |-> error.x])

\* C23: a creation attempted while the store holds max_macros macros or more
\* fails with the capacity error, raised by create and returned as (False,
\* reason) by handle_create_command, and the store reads back exactly the
\* macros it held before.
C23_CapacityError ==
    [][(IsCreateCall /\ Len(storage.rows) >= max_macros)
         => /\ result' = Failure(CapacityReached)
            /\ Macros(storage') = Macros(storage)
            /\ Len(storage'.rows) = Len(storage.rows)]_vars

\* A creation was refused by a store holding more than max_macros macros
\* (an import is not limited).
C23_Witness ==
    /\ op = "create"
    /\ result = CapacityReached
    /\ Len(storage.rows) > max_macros

\* The normalized name of the creation's argument is the name of a stored
\* macro.
NameTaken == HasName(storage, strip(lower(arg'.name)))

\* C24, as stated: a creation under a normalized name the store already holds
\* fails with the duplicate-name error, a ValueError from create and (False,
\* reason) from handle_create_command, and the store reads back unchanged.
C24_DuplicateNameAlways ==
    [][(IsCreateCall /\ NameTaken)
         => /\ result' = Failure(AlreadyExists)
            /\ Macros(storage') = Macros(storage)
            /\ Len(storage'.rows) = Len(storage.rows)]_vars

\* C24, amended: the same for a store holding fewer than max_macros macros;
\* a full store answers every creation with the capacity error first.
C24_DuplicateName ==
    [][(IsCreateCall /\ NameTaken /\ Len(storage.rows) < max_macros)
         => /\ result' = Failure(AlreadyExists)
            /\ Macros(storage') = Macros(storage)
            /\ Len(storage'.rows) = Len(storage.rows)]_vars

\* " Boost " was refused by a store that holds "boost" and has room.
C24_Witness ==
    /\ op = "handle_create_command"
    /\ arg.name = " Boost "
    /\ result = V("tuple", [success |-> FALSE, reason |-> AlreadyExists.x])
    /\ HasName(storage, "boost")
    /\ Len(storage.rows) < max_macros

\* The payloads of a macro as it is read from the store.
LegacyPopulated(macro) ==
    macro.action_type # Null \/ macro.keys # Null \/ macro.duration # Null
StepsPopulated(macro) == macro.action_steps # Null

ReadBackAsWritten(a, macro) ==
    /\ macro.name = strip(lower(a.name))
    /\ IF ~Falsy(a.action_steps)
       THEN /\ macro.action_type = Null
            /\ macro.keys = Null
            /\ macro.duration = Null
            /\ macro.action_steps = a.action_steps
            /\ macro.schema_version = V("int", 2)
       ELSE /\ macro.action_steps = Null
            /\ macro.schema_version = V("int", 1)
            /\ macro.action_type = a.action_type
            /\ ~Falsy(a.keys) => macro.keys = a.keys
Created ==
    \/ op' = "create" /\ result'.t = "macro"
    \/ op' = "handle_create_command" /\ result' = V("tuple", [success |-> TRUE, reason |-> ""])

\* C26: a macro created with action_steps is read back with action_type,
\* keys and duration null, the action_steps that were written and
\* schema_version 2; one created with keys and action_type is read back with
\* action_steps null, the same keys and action_type and schema_version 1.
\* This holds of the macro create returns and of the macro the store lists.
C26_ReadBackShape ==
    [][Created
         => /\ op' = "create" => ReadBackAsWritten(arg', result'.x)
            /\ \E j \in DOMAIN Macros(storage') :
                  ReadBackAsWritten(arg', Macros(storage')[j])]_vars

\* A macro of generation 2 was just created and read back, in a store that
\* also holds one of generation 1 with its keys.
C26_Witness ==
    /\ op = "create"
    /\ result.t = "macro"
    /\ result.x.schema_version = V("int", 2)
    /\ result.x.action_steps = List(<<SampleStep>>)
    /\ \E j \in DOMAIN Macros(storage) :
          /\ Macros(storage)[j].schema_version = V("int", 1)
          /\ Macros(storage)[j].keys = List(<<"w">>)

\* ------------------------------------------------------ export and import
\* The exported document's entry and the macro read from the importing
\* store agree on name, trigger phrase, payload shape, payload and response.
EquivalentMacro(entry, macro) ==
    /\ entry.name = Str(macro.name)
    /\ entry.trigger_phrase = Str(macro.trigger_phrase)
    /\ StepsPopulated(entry) <=> StepsPopulated(macro)
    /\ entry.action_steps = macro.action_steps
    /\ entry.action_type = macro.action_type
    /\ entry.keys = macro.keys
    /\ entry.duration = macro.duration
    /\ entry.schema_version = macro.schema_version
    /\ entry.response = macro.response
\* The exported text was just imported, without overwrite, into the store of
\* a new file.
ImportedIntoEmpty ==
    /\ op = "import_json"
    /\ exported # NoExport
    /\ arg.json_data = exported
    /\ ~arg.overwrite

\* The entries list the macros, one each and in the same order.
Lists(entries, macros) ==
    /\ Len(macros) = Len(entries)
    /\ \A j \in DOMAIN entries : EquivalentMacro(entries[j].x, macros[j])
\* The text export_json writes lists the macros of the exporting store.
ExportListsStore ==
    op' = "export_json" => Lists(loads(exported').x, Macros(storage))
\* The importing store lists the macros of the text, and import_json returned
\* their number.
ImportReproduces ==
    ImportedIntoEmpty
      => /\ result = V("int", Len(loads(exported).x))
         /\ Lists(loads(exported).x, Macros(storage))

\* C27: export followed by import, without overwrite, into an empty store
\* reproduces an equivalent macro set: the exported text has one entry per
\* macro of the exporting store, and the importing store reads back one
\* macro per entry, each with the entry's name, trigger phrase, payload
\* shape, payload and response.
C27_RoundTrip == [][ExportListsStore]_vars /\ []ImportReproduces

\* A store with a legacy macro and a macro of generation 2 went through
\* export and import.
C27_Witness ==
    /\ ImportedIntoEmpty
    /\ \E j, k \in DOMAIN Macros(storage) :
          /\ Macros(storage)[j].schema_version = V("int", 1)
          /\ Macros(storage)[j].keys # List(<<>>)
          /\ Macros(storage)[k].schema_version = V("int", 2)
          /\ Macros(storage)[k].response # Null

\* The entry is a macro import_json can create: an object with a name and a
\* trigger phrase that are strings.
WellFormed(entry) ==
    /\ entry.t = "dict"
    /\ entry.x.name.t = "str"
    /\ entry.x.trigger_phrase.t = "str"
\* The step is import_json on a text that is a JSON list.
ImportsList ==
    /\ op' = "import_json"
    /\ arg'.json_data.t = "json"
    /\ loads(arg'.json_data).t = "list"

\* C28: import_json does not abort on a bad entry of the list: it returns a
\* count and raises nothing, every well-formed entry's macro is in the store
\* afterwards (imported now, or there before), and without overwrite the
\* count is the number of macros the store gained.
C28_ImportNeverAborts ==
    [][ImportsList
         => /\ ~IsRaised(result')
            /\ \A j \in DOMAIN loads(arg'.json_data).x :
                  WellFormed(loads(arg'.json_data).x[j])
                    => HasName(storage', loads(arg'.json_data).x[j].x.name.x)
            /\ ~arg'.overwrite
                 => result' = V("int", Len(storage'.rows) - Len(storage.rows))]_vars

\* ---------------------------------------------------------- schema upgrade
\* The rows of the table as _row_to_dict reads them, in id order, whether or
\* not the table has the columns of generation 2.
ReadRows(st) == [j \in DOMAIN st.rows |-> row_to_dict(st.rows[j])]
\* The table of the database file.
Table(st) == <<st.columns, st.rows>>
\* The step runs MacroStorage.initialize() on a storage object that has not
\* run it yet.
Initializes == op' = "initialize" /\ ~storage.initialized

\* C29: initialize() on a database of generation 1, on an upgraded one or on
\* a new file removes no column and no row and leaves every macro reading as
\* before (name, trigger phrase, keys, action_type, duration and the rest);
\* on a table that has the columns of generation 2 already it changes
\* nothing, and running it once more after any run changes nothing.
C29_UpgradeAdditiveIdempotent ==
    [][Initializes
         => /\ storage.columns \subseteq storage'.columns
            /\ ReadRows(storage') = ReadRows(storage)
            /\ "action_steps" \in storage.columns => Table(storage') = Table(storage)
            /\ Table(initialize([storage' EXCEPT !.initialized = FALSE]))
                 = Table(storage')]_vars

\* initialize() has run on the database of generation 1: the table has the
\* new columns and the old macro reads as it did.
C29_Witness ==
    /\ op = "initialize"
    /\ storage.columns = V2Columns
    /\ ReadRows(storage) = ReadRows(LegacyDatabase)
    /\ storage.rows[1].schema_version = V("int", 1)
    /\ storage.rows[1].action_steps = Null

\* --------------------------------------------------- conversation context
\* The last n items of a sequence.
LastN(s, n) == IF Len(s) <= n THEN s ELSE SubSeq(s, Len(s) - n + 1, Len(s))
\* The turns the step's operation adds, in order.
AddedTurns ==
    IF op' = "add_user_input" THEN <<ConversationTurn("user", arg'.text, Null)>>
    ELSE IF op' = "add_response"
    THEN <<ConversationTurn("assistant", arg'.response, arg'.command)>>
    ELSE IF op' = "add"
    THEN <<ConversationTurn("user", arg'.user_input, Null),
           ConversationTurn("assistant", arg'.command.x.response, arg'.command)>>
    ELSE <<>>
HistoryBounded == Len(context.history) <= 2 * context.max_turns
\* After an adding operation the history is the old history followed by the
\* new turns, cut to its last 2 * max_turns turns: what is dropped is dropped
\* from the old end and the rest keeps its order.
OldestEvicted ==
    op' \in {"add_user_input", "add_response", "add"}
      => context'.history = LastN(context.history \o AddedTurns, 2 * context.max_turns)

\* C30: the history never holds more than 2 * max_turns turns, and a turn
\* added to a full history evicts exactly the oldest turn, the others keeping
\* their order.
C30_HistoryBoundedOldestFirst == []HistoryBounded /\ [][OldestEvicted]_vars

\* The history is full and the turn that carried the last command is no
\* longer in it: it was evicted.
C30_Witness ==
    /\ Len(context.history) = 2 * context.max_turns
    /\ context.max_turns = MaxTurns
    /\ context.last_command # Null
    /\ \A j \in DOMAIN context.history :
          context.history[j].command # context.last_command

\* The places of the retained turns that carry a keyboard command.
KeyboardTurns ==
    {j \in DOMAIN context.history :
        /\ context.history[j].command.t = "command"
        /\ context.history[j].command.x.type \in {"press_key", "hold_key", "key_combo"}}

\* C31: get_last_keyboard_command returns the command of the newest retained
\* turn that carries a press_key, hold_key or key_combo command, and None
\* when no retained turn carries one (after clear, or once every such turn
\* has been evicted).
C31_LastKeyboardCommand ==
    op = "get_last_keyboard_command"
      => IF KeyboardTurns = {} THEN result = Null
         ELSE \E j \in KeyboardTurns :
                 /\ \A m \in KeyboardTurns : m <= j
                 /\ result = context.history[j].command

\* Two different keyboard commands are retained, a turn without one came
\* after them, and the newer of the two was returned.
C31_Witness ==
    /\ op = "get_last_keyboard_command"
    /\ \E j, m \in KeyboardTurns :
          /\ j < m
          /\ context.history[j].command # context.history[m].command
          /\ result = context.history[m].command
          /\ m < Len(context.history)

\* Every turn with a keyboard command has been evicted: the history is full,
\* a keyboard command was once recorded, and None was returned.
C31_Evicted ==
    /\ op = "get_last_keyboard_command"
    /\ Len(context.history) = 2 * context.max_turns
    /\ context.last_command.t = "command"
    /\ context.last_command.x.type = "press_key"
    /\ result = Null

\* ------------------------------------------------------- keys held down
\* The keys the log leaves down: pressed more often than released, counting
\* the calls that returned.
DownKeys(lg) ==
    {k \in {lg[j].k : j \in DOMAIN lg} :
        Len(SelectSeq(lg, LAMBDA x : IsPress(x) /\ x.k = k /\ x.v = 1))
          > Len(SelectSeq(lg, LAMBDA x : IsRelease(x) /\ x.k = k /\ x.v = 1))}

\* press_key, hold_key or key_combo is suspended in a sleep.
SuspendedInKeyAction ==
    /\ frames # <<>>
    /\ Top.fn \in {"press_key", "hold_key", "key_combo"}
    /\ Top.pc \in SleepPcs

\* C36: at every suspension point of press_key, hold_key and key_combo each
\* key pressed and not yet released is in the held-key list, and after a
\* cancellation there release_all_held_keys issues a release for it.
C36_DownKeysTracked ==
    [][/\ SuspendedInKeyAction' => DownKeys(log') \subseteq Elems(held')
       /\ (/\ result = "cancelled"
           /\ intr.fn \in {"press_key", "hold_key", "key_combo"}
           /\ op' = "release_all_held_keys")
            => \A k \in DownKeys(log) :
                  \E j \in DOMAIN log' : log'[j].e = "release" /\ log'[j].k = k]_vars

\* ------------------------------------------------------------ macro count
\* C37: from a store of at most max_macros macros, the store holds at most
\* max_macros macros after any sequence of create, delete and import
\* operations, with or without overwrite.
C37_CountNeverExceedsMax == Len(storage.rows) <= max_macros

\* The same bound for the steps that are no import.
CountBoundedWithoutImport ==
    [][(op' # "import_json" /\ Len(storage.rows) <= max_macros)
         => Len(storage'.rows) <= max_macros]_vars

\* ---------------------------------------------------------- skipped entries
\* The rows stored under a name.
RowsNamed(st, name) == SelectSeq(st.rows, LAMBDA row : row.name = name)
\* Entry j of the list the step imports is reached and ends up skipped, with
\* the store as it is when the entry's turn comes and as the entry leaves it.
SkippedEntryKeepsItsMacro(j, overwrite) ==
    LET entries == loads(arg'.json_data).x
        before == import_from(initialize(storage), SubSeq(entries, 1, j - 1), overwrite, 0)
        done == import_entry(before[1], entries[j], overwrite)
    IN (/\ ~IsRaised(before[2])
        /\ done[2] = Str("skipped")
        /\ entries[j].x.name.t = "str")
         => RowsNamed(done[1], entries[j].x.name.x) = RowsNamed(before[1], entries[j].x.name.x)

\* C38: an import entry that ends up skipped leaves the store unchanged for
\* its name; with overwrite requested, an entry that fails validation (one
\* without a trigger_phrase) neither removes nor alters the macro stored
\* under its name.
C38_SkippedEntryLeavesStore ==
    [][ImportsList
         => \A j \in DOMAIN loads(arg'.json_data).x :
               SkippedEntryKeepsItsMacro(j, arg'.overwrite)]_vars

\* The same for the imports without overwrite.
SkippedEntryLeavesStoreWithoutOverwrite ==
    [][(ImportsList /\ ~arg'.overwrite)
         => \A j \in DOMAIN loads(arg'.json_data).x :
               SkippedEntryKeepsItsMacro(j, FALSE)]_vars

\* ----------------------------------------------------------------- shutdown
\* _shutdown has called release_all_held_keys.
ShutDown == op = "release_all_held_keys"

\* The keys an executor tracked as held have each been handed to release.
ReleasedAll(keys) ==
    \A k \in Elems(keys) : \E j \in DOMAIN log : log[j].e = "release" /\ log[j].k = k

\* C34: however the main loop ends, after shutdown no executor of the
\* program tracks a held key and every key that was tracked has been
\* released.
C34_ShutdownReleasesHeldKeys ==
    ShutDown => /\ held = <<>>
                /\ parked.held = <<>>
                /\ ReleasedAll(held0)

\* The same for the keys of Roland.keyboard alone.
ShutdownReleasesKeyboardKeys == ShutDown => held = <<>> /\ ReleasedAll(held0)

\* Shutdown after a hold that Roland.keyboard was cancelled in.
ShutdownAfterCancelledHold == ShutDown /\ held0 # <<>> /\ parked.held = <<>>

\* ------------------------------------------------- context of the main loop
\* The handler `handler` has executed a keyboard action for the utterance
\* arg.text and has returned.
ExecutedBy(handler) ==
    /\ frames = <<>>
    /\ op = handler
    /\ result = "true"
    /\ Presses(log) # <<>>

\* The context ends with the turns of the utterance arg.text, and a repeat
\* request finds the command of these turns.
UtteranceRecorded ==
    LET n == Len(context.history)
    IN /\ n >= 2
       /\ context.history[n - 1].role = "user"
       /\ context.history[n - 1].content = arg.text
       /\ context.history[n].role = "assistant"
       /\ context.history[n].command # Null
       /\ get_last_keyboard_command(context) = context.history[n].command

\* C32: after the orchestrator has executed a keyboard action for an
\* utterance, from a keybind hit, a macro hit or a parsed intent, the context
\* holds the turns of the utterance and a repeat request finds its command.
C32_ExecutedCommandRecorded ==
    (\E handler \in {"_execute_keybind", "_execute_macro", "_execute_command"} :
        ExecutedBy(handler))
      => UtteranceRecorded

\* The same for parsed intents alone.
ParsedIntentRecorded == ExecutedBy("_execute_command") => UtteranceRecorded

\* A parsed intent has been executed.
ParsedIntentExecuted == ExecutedBy("_execute_command")
\* A keybind, a macro have been executed and the context is as it was.
KeybindNotRecorded == ExecutedBy("_execute_keybind") /\ ~UtteranceRecorded
MacroNotRecorded == ExecutedBy("_execute_macro") /\ ~UtteranceRecorded

\* ------------------------------------------------------ macros of the intent
\* _execute_command has handled a CreateMacro command and the macro was
\* created.
CreatedMacro ==
    /\ frames = <<>>
    /\ op = "_execute_command"
    /\ arg.command.t = "command"
    /\ arg.command.x.type = "create_macro"
    /\ result = "true"

\* The macro stored under a name, as the store reads it back.
StoredMacro(name) ==
    row_to_dict(storage.rows[CHOOSE j \in DOMAIN storage.rows : storage.rows[j].name = name])

\* The steps of a command as MacroManager.create would hand them to the
\* store.
steps_data(steps) ==
    List([j \in DOMAIN steps |->
            Dict([action_type |-> steps[j].action_type,
                  keys |-> List(steps[j].keys),
                  repeat_count |-> V("int", steps[j].repeat_count),
                  delay_between |-> steps[j].delay_between,
                  duration |-> steps[j].duration,
                  delay_after |-> steps[j].delay_after])])

StoredAsSteps(macro, command) ==
    /\ macro.schema_version = V("int", 2)
    /\ macro.action_steps = steps_data(command.macro_steps)

StoredAsLegacy(macro, command) ==
    /\ macro.schema_version = V("int", 1)
    /\ macro.action_steps = Null
    /\ macro.keys = command.macro_keys
    /\ macro.action_type = command.macro_action_type

\* C33: after the orchestrator has handled a CreateMacro command, the store
\* holds a macro of the command's name; it is a v2 macro with the command's
\* steps when the intent carries macro_steps, and a legacy macro with the
\* command's keys and action type when it does not.
C33_CreateMacroStoresPayload ==
    CreatedMacro
      => /\ HasName(storage, arg.command.x.macro_name.x)
         /\ IF arg.response.macro_steps # Absent
            THEN StoredAsSteps(StoredMacro(arg.command.x.macro_name.x), arg.command.x)
            ELSE StoredAsLegacy(StoredMacro(arg.command.x.macro_name.x), arg.command.x)

\* The same for the intents without macro_steps.
LegacyMacroStored ==
    (CreatedMacro /\ arg.response.macro_steps = Absent)
      => /\ HasName(storage, arg.command.x.macro_name.x)
         /\ StoredAsLegacy(StoredMacro(arg.command.x.macro_name.x), arg.command.x)

\* A macro to hold a key has been created.
HoldMacroCreated == CreatedMacro /\ arg.command.x.macro_action_type = Str("hold_key")
\* An intent with macro_steps has been stored as a legacy macro without keys.
StepsStoredAsLegacy ==
    /\ CreatedMacro
    /\ arg.response.macro_steps # Absent
    /\ arg.command.x.macro_steps # <<>>
    /\ StoredMacro(arg.command.x.macro_name.x).schema_version = V("int", 1)
    /\ StoredMacro(arg.command.x.macro_name.x).keys = List(<<>>)

\* ----------------------------------------------- complex actions of intents
\* _execute_command has handled a ComplexAction command with validated
\* steps and has returned.
HandledComplexAction ==
    /\ frames = <<>>
    /\ op = "_execute_command"
    /\ arg.command.t = "command"
    /\ arg.command.x.type = "complex_action"
    /\ arg.command.x.steps # <<>>
    /\ result \notin {"raised", "cancelled", "error"}

\* The keys a sequence of steps presses when every step succeeds: step by
\* step, each step's keys repeat_count times.
RECURSIVE KeysOfSteps(_)
RepeatedKeys(step) ==
    [j \in 1 .. step.repeat_count * Len(step.keys) |->
        resolve_key(step.keys[((j - 1) % Len(step.keys)) + 1])]
KeysOfSteps(steps) ==
    IF steps = <<>> THEN <<>>
    ELSE RepeatedKeys(Head(steps)) \o KeysOfSteps(Tail(steps))

PressedKeys(lg) == [j \in DOMAIN Presses(lg) |-> Presses(lg)[j].k]

\* C35: when the orchestrator has handled a ComplexAction command with a
\* non-empty validated step list, the executor has run the steps and the
\* success or the failure of the run is what was spoken; after a success
\* the keys of the steps have been pressed in order.
C35_ComplexActionExecuted ==
    HandledComplexAction
      => /\ result \in {"true", "false"}
         /\ result = "true" => PressedKeys(log) = KeysOfSteps(arg.command.x.steps)

\* A ComplexAction command was answered with its response text and no key
\* was pressed.
ComplexActionOnlySpoken ==
    HandledComplexAction /\ result = "spoken" /\ log = <<>>

\* --------------------------------------------------- names and trigger phrases
\* The macro that took the utterance arg.text.
MacroHit == find_by_trigger(storage, arg.text).x

\* C39: no stored macro has an empty name or an empty trigger phrase, and an
\* utterance is taken by a macro only when the macro's non-empty trigger
\* phrase is the utterance or occurs inside it.
C39_NoEmptyNameOrTrigger ==
    /\ \A j \in DOMAIN storage.rows :
          storage.rows[j].name # "" /\ storage.rows[j].trigger_phrase # ""
    /\ (op = "_execute_macro" /\ result = "pending")
         => /\ MacroHit.trigger_phrase # ""
            /\ IsSubstring(CharsOf[MacroHit.trigger_phrase], CharsOf[arg.text])

\* The same for the macros that were given a name.
NamedMacroHit ==
    (op = "_execute_macro" /\ result = "pending" /\ MacroHit.name # "")
      => /\ MacroHit.trigger_phrase # ""
         /\ IsSubstring(CharsOf[MacroHit.trigger_phrase], CharsOf[arg.text])

\* A macro with a name has taken an utterance.
NamedMacroTriggered == op = "_execute_macro" /\ result = "pending" /\ MacroHit.name # ""
\* The macro without name and trigger phrase has taken the utterance "fire".
EmptyTriggerTakesFire ==
    /\ op = "_execute_macro"
    /\ result = "pending"
    /\ arg.text = "fire"
    /\ MacroHit.trigger_phrase = ""

\* ------------------------------------------------------------ keys pressed
\* The keys of the allow-list as the executor hands them to the keyboard.
AllowedPresses == {resolve_key(key) : key \in ALLOWED_KEYS}

\* The handlers that press keys on behalf of an intent document: the intent
\* itself, its repetition, and a macro an intent created.
IntentHandlers == {"_execute_command", "_handle_repeat", "_execute_macro"}

\* C40: every key the executor presses for an intent document, executed
\* directly or stored as a macro and triggered later, is in the
\* interpreter's allow-list.
C40_PressedKeysAllowed ==
    op \in IntentHandlers
      => \A j \in DOMAIN log : IsPress(log[j]) => log[j].k \in AllowedPresses

\* The same for the intents executed directly and their repetitions.
DirectPressesAllowed ==
    op \in {"_execute_command", "_handle_repeat"}
      => \A j \in DOMAIN log : IsPress(log[j]) => log[j].k \in AllowedPresses

\* A key command with a key outside the allow-list has pressed its other key.
DirectIntentPressed ==
    /\ op = "_execute_command"
    /\ arg.response.keys = List(<<Str("#"), Str("W")>>)
    /\ PressedKeys(log) = <<"w">>
\* A macro has pressed "#".
MacroPressedHash == op = "_execute_macro" /\ "#" \in Elems(PressedKeys(log))

====
